---- MODULE Spec2Model ----
(***************************************************************************)
(* Model of drawer-stack: the useDrawerStack hook (the stack store kept in *)
(* the repeated `drawer` query parameter of the URL), the host's browsing  *)
(* history it writes to, the DrawerStack component's close sequence and    *)
(* render, the drag gesture of a panel, and the resolution of a drawer     *)
(* path against the route tree.                                            *)
(*                                                                         *)
(* Strings that are parsed or serialised are sequences of one-character    *)
(* strings, so URLSearchParams' encoding and decoding are computed, not    *)
(* assumed.                                                                *)
(***************************************************************************)
EXTENDS Integers, Sequences, FiniteSets, TLC

VARIABLES
    entries,         \* the browser's session history: a sequence of locations
    index,           \* position of the current entry; window.location = entries[index]
    searchParams,    \* the hook's snapshot: useSearchParams() at the last render
    pathname,        \* the hook's snapshot: useLocation().pathname at the last render
    drawerStack,     \* the hook's memoised derived stack
    openDrawers,     \* DrawerStack state: "true", "false" or a hole per position
    closingDrawers,  \* DrawerStack state: set of positions
    draggingDrawers, \* DrawerStack state: set of positions
    openTimers,      \* pending setTimeout(.., 10) callbacks of the sync effect
    closeTimers,     \* pending setTimeout(.., animationDuration) callbacks
    cleanupTimers,   \* pending setTimeout(.., 50) callbacks
    bodyOverflow,    \* document.body.style.overflow
    listenersAttached, \* positions whose document pointerdown listener is attached
    unrendered,      \* host changes the hook has not yet re-rendered with
    panels,          \* per stack position: the state of its Drawer.Root, Content, Handle
    handleOnly,      \* the handleOnly prop the panels are rendered with
    endListeners,    \* the dragging positions, in the order of their content's
                     \* mouseup and touchend listeners on document
    routes,          \* DrawerContent: the routes prop (a route tree)
    drawerPath,      \* DrawerContent: the path prop
    rendered,        \* DrawerContent: what its last render returned
    lastOp,          \* the operation that took the last step, with its argument
    run              \* the current run of consecutive pushes and the backs after it

vars == <<entries, index, searchParams, pathname, drawerStack, openDrawers,
          closingDrawers, draggingDrawers, openTimers, closeTimers,
          cleanupTimers, bodyOverflow, listenersAttached, unrendered, panels,
          handleOnly, endListeners, routes, drawerPath, rendered, lastOp, run>>

hostVars == <<entries, index>>
hookVars == <<searchParams, pathname, drawerStack>>
gestureVars == <<panels, handleOnly, endListeners>>
resolverVars == <<routes, drawerPath, rendered>>
uiVars == <<openDrawers, closingDrawers, draggingDrawers, openTimers,
            closeTimers, cleanupTimers, bodyOverflow, listenersAttached,
            gestureVars, resolverVars>>

----------------------------------------------------------------------------
(* Bounds of the model *)

\* longest browsing history explored
MaxHist == 3
\* longest drawer list a push or replace may produce
MaxStack == 3
\* most host changes that happen before the state propagates to the hook
MaxBatch == 2
\* most close sequences in flight at once
MaxTimers == 2
\* longest browsing history explored with DrawerStack mounted
MaxHistUI == 4

----------------------------------------------------------------------------
(* Strings *)

DRAWER == <<"d", "r", "a", "w", "e", "r">>
TAB == <<"t", "a", "b">>

PathA == <<"/", "a">>
\* a path that embeds its own query string
PathB == <<"/", "b", "?", "x", "=", "a", "&", "b">>
\* a path that is not a well-formed string: its last code unit is a lone
\* surrogate
PathS == <<"/", "U+D800">>
Paths == {PathA, PathB, PathS}

\* the printable ASCII characters, U+0020 to U+007E, in the order of their
\* codes; the double quote, the backslash and the grave accent are named by
\* their code points
Ascii == <<" ", "!", "U+22", "#", "$", "%", "&", "'", "(", ")", "*", "+", ",",
           "-", ".", "/", "0", "1", "2", "3", "4", "5", "6", "7", "8", "9",
           ":", ";", "<", "=", ">", "?", "@", "A", "B", "C", "D", "E", "F",
           "G", "H", "I", "J", "K", "L", "M", "N", "O", "P", "Q", "R", "S",
           "T", "U", "V", "W", "X", "Y", "Z", "[", "U+5C", "]", "^", "_", "U+60",
           "a", "b", "c", "d", "e", "f", "g", "h", "i", "j", "k", "l", "m",
           "n", "o", "p", "q", "r", "s", "t", "u", "v", "w", "x", "y", "z",
           "{", "|", "}", "~">>

HexDigits == <<"0", "1", "2", "3", "4", "5", "6", "7", "8", "9",
               "A", "B", "C", "D", "E", "F">>
LowerHexDigits == <<"a", "b", "c", "d", "e", "f">>

\* the values of the hexadecimal digits of either case
HexValues ==
    [d \in {HexDigits[k] : k \in 1..16} \cup {LowerHexDigits[k] : k \in 1..6} |->
        IF \E k \in 1..16 : HexDigits[k] = d
        THEN (CHOOSE k \in 1..16 : HexDigits[k] = d) - 1
        ELSE (CHOOSE k \in 1..6 : LowerHexDigits[k] = d) + 9]

\* the value of a hexadecimal digit of either case, or -1
hexValue(d) == IF d \in DOMAIN HexValues THEN HexValues[d] ELSE 0 - 1

RECURSIVE hexOf(_)
\* a number in upper-case hexadecimal
hexOf(n) == IF n < 16 THEN HexDigits[n + 1]
            ELSE hexOf(n \div 16) \o HexDigits[(n % 16) + 1]

\* the character of a code point: itself if printable ASCII, and named by its
\* code point (as "U+E9") if not
charOf(cp) == IF cp \in 32..126 THEN Ascii[cp - 31] ELSE "U+" \o hexOf(cp)

\* the codes of the printable ASCII characters
AsciiCodes ==
    [c \in {Ascii[k] : k \in 1..95} |-> (CHOOSE k \in 1..95 : Ascii[k] = c) + 31]

\* code points outside printable ASCII that the paths explored hold: a line
\* feed, two accented letters, a lone surrogate and the replacement character
NamedCodePoints == {10, 201, 233, 55296, 55357, 56832, 65533, 128512}

\* the codes of their characters
NamedCodes ==
    [c \in {charOf(cp) : cp \in NamedCodePoints} |->
        CHOOSE cp \in NamedCodePoints : charOf(cp) = c]

\* the code point of a character
codeOf(c) ==
    IF c \in DOMAIN AsciiCodes THEN AsciiCodes[c]
    ELSE IF c \in DOMAIN NamedCodes THEN NamedCodes[c]
    ELSE CHOOSE cp \in 0..1114111 : charOf(cp) = c

\* U+FFFD, the replacement character
REPLACEMENT == 65533

\* the code points of the surrogates: a string holds one as a character of its
\* own only where it is not half of a pair
Surrogates == 55296..57343

\* a character of a scalar-value string: a lone surrogate becomes U+FFFD
toUSVChar(c) ==
    IF c \in DOMAIN AsciiCodes THEN c
    ELSE IF codeOf(c) \in Surrogates THEN charOf(REPLACEMENT)
    ELSE c

\* the conversion of a string argument to a scalar-value string (USVString)
toUSVString(s) == [k \in 1..Len(s) |-> toUSVChar(s[k])]

RECURSIVE utf8Bytes(_)
\* the UTF-8 bytes of a code point; the encoder works on scalar values, so a
\* lone surrogate is encoded as U+FFFD
utf8Bytes(cp) ==
    IF cp \in Surrogates THEN utf8Bytes(REPLACEMENT)
    ELSE IF cp < 128 THEN <<cp>>
    ELSE IF cp < 2048 THEN <<192 + (cp \div 64), 128 + (cp % 64)>>
    ELSE IF cp < 65536
         THEN <<224 + (cp \div 4096), 128 + ((cp \div 64) % 64), 128 + (cp % 64)>>
    ELSE <<240 + (cp \div 262144), 128 + ((cp \div 4096) % 64),
           128 + ((cp \div 64) % 64), 128 + (cp % 64)>>

\* characters the application/x-www-form-urlencoded serialiser leaves alone:
\* ASCII letters and digits, "*", "-", "." and "_"
Alnum == {Ascii[k] : k \in (17..26) \cup (34..59) \cup (66..91)}
             \cup {"*", "-", ".", "_"}

\* the two upper-case hexadecimal digits of a byte
PctCode(byte) == <<HexDigits[(byte \div 16) + 1], HexDigits[(byte % 16) + 1]>>

\* two hexadecimal digits, of either case
IsPctCode(h) == hexValue(h[1]) >= 0 /\ hexValue(h[2]) >= 0
\* the byte they stand for
PctByte(h) == 16 * hexValue(h[1]) + hexValue(h[2])

RECURSIVE encodeBytes(_)
encodeBytes(bytes) ==
    IF bytes = <<>> THEN <<>>
    ELSE <<"%">> \o PctCode(Head(bytes)) \o encodeBytes(Tail(bytes))

\* URLSearchParams.prototype.toString: one character of a name or value
encodeChar(c) ==
    IF c \in Alnum THEN <<c>>
    ELSE IF c = " " THEN <<"+">>
    ELSE encodeBytes(utf8Bytes(codeOf(c)))

RECURSIVE encode(_)
encode(s) == IF s = <<>> THEN <<>> ELSE encodeChar(Head(s)) \o encode(Tail(s))

RECURSIVE percentDecode(_)
\* the bytes of a name or value of a query string: "+" is a space, "%" and
\* two hexadecimal digits are the byte they name, any other character is its
\* own UTF-8 bytes
percentDecode(s) ==
    IF s = <<>> THEN <<>>
    ELSE IF Head(s) = "+" THEN <<32>> \o percentDecode(Tail(s))
    ELSE IF Head(s) = "%" /\ Len(s) >= 3 /\ IsPctCode(SubSeq(s, 2, 3))
         THEN <<PctByte(SubSeq(s, 2, 3))>> \o percentDecode(SubSeq(s, 4, Len(s)))
    ELSE utf8Bytes(codeOf(Head(s))) \o percentDecode(Tail(s))

RECURSIVE utf8Decode(_, _, _, _, _)
\* UTF-8 decode without BOM, with replacement: cp is the code point collected
\* so far, needed the continuation bytes still expected, lower..upper the
\* range the next continuation byte must be in
utf8Decode(bytes, cp, needed, lower, upper) ==
    IF bytes = <<>>
    THEN IF needed > 0 THEN <<charOf(REPLACEMENT)>> ELSE <<>>
    ELSE LET b == Head(bytes)
             rest == Tail(bytes)
         IN  IF needed = 0
             THEN IF b < 128 THEN <<charOf(b)>> \o utf8Decode(rest, 0, 0, 128, 191)
                  ELSE IF b \in 194..223 THEN utf8Decode(rest, b - 192, 1, 128, 191)
                  ELSE IF b \in 224..239
                       THEN utf8Decode(rest, b - 224, 2,
                                       IF b = 224 THEN 160 ELSE 128,
                                       IF b = 237 THEN 159 ELSE 191)
                  ELSE IF b \in 240..244
                       THEN utf8Decode(rest, b - 240, 3,
                                       IF b = 240 THEN 144 ELSE 128,
                                       IF b = 244 THEN 143 ELSE 191)
                  ELSE <<charOf(REPLACEMENT)>> \o utf8Decode(rest, 0, 0, 128, 191)
             ELSE IF b \notin lower..upper
                  THEN <<charOf(REPLACEMENT)>> \o utf8Decode(bytes, 0, 0, 128, 191)
                  ELSE IF needed = 1
                       THEN <<charOf(cp * 64 + (b - 128))>>
                                \o utf8Decode(rest, 0, 0, 128, 191)
                       ELSE utf8Decode(rest, cp * 64 + (b - 128), needed - 1, 128, 191)

\* a name or value of a query string as new URLSearchParams(string) reads it
decode(s) == utf8Decode(percentDecode(s), 0, 0, 128, 191)

\* position of the first occurrence of c in s, or 0
indexOf(s, c) ==
    IF \E k \in 1..Len(s) : s[k] = c
    THEN CHOOSE k \in 1..Len(s) : s[k] = c /\ \A m \in 1..(k - 1) : s[m] # c
    ELSE 0

RECURSIVE split(_, _)
split(s, c) ==
    LET i == indexOf(s, c)
    IN  IF i = 0 THEN <<s>>
        ELSE <<SubSeq(s, 1, i - 1)>> \o split(SubSeq(s, i + 1, Len(s)), c)

----------------------------------------------------------------------------
(* URLSearchParams: an ordered list of <<name, value>> pairs *)

parsePair(s) ==
    LET i == indexOf(s, "=")
    IN  IF i = 0 THEN <<decode(s), <<>>>>
        ELSE <<decode(SubSeq(s, 1, i - 1)), decode(SubSeq(s, i + 1, Len(s)))>>

RECURSIVE parsePairs(_)
parsePairs(parts) ==
    IF parts = <<>> THEN <<>>
    ELSE IF Head(parts) = <<>> THEN parsePairs(Tail(parts))
    ELSE <<parsePair(Head(parts))>> \o parsePairs(Tail(parts))

\* new URLSearchParams(init) for a string init: a leading "?" is dropped
URLSearchParams(init) ==
    LET s == IF init # <<>> /\ Head(init) = "?" THEN Tail(init) ELSE init
    IN  parsePairs(split(s, "&"))

RECURSIVE toString(_)
toString(params) ==
    IF params = <<>> THEN <<>>
    ELSE encode(params[1][1]) \o <<"=">> \o encode(params[1][2])
         \o (IF Len(params) > 1 THEN <<"&">> \o toString(Tail(params)) ELSE <<>>)

IsKey(pair, name) == pair[1] = name
IsNotKey(pair, name) == pair[1] # name

\* the methods take their string arguments as scalar-value strings
getAll(params, name) ==
    LET key == toUSVString(name)
        hits == SelectSeq(params, LAMBDA pr : IsKey(pr, key))
    IN  [i \in 1..Len(hits) |-> hits[i][2]]

append(params, name, value) ==
    Append(params, <<toUSVString(name), toUSVString(value)>>)

delete(params, name) ==
    LET key == toUSVString(name)
    IN  SelectSeq(params, LAMBDA pr : IsNotKey(pr, key))

RECURSIVE appendAll(_, _, _)
appendAll(params, name, values) ==
    IF values = <<>> THEN params
    ELSE appendAll(append(params, name, Head(values)), name, Tail(values))

\* Array.prototype.slice(0, -1)
sliceButLast(list) == IF list = <<>> THEN <<>> ELSE SubSeq(list, 1, Len(list) - 1)

----------------------------------------------------------------------------
(* The host: browsing history and the navigate primitive *)

windowLocation == entries[index]

\* the search component of a resolved path: "" or "?" followed by the query
normalizeSearch(search) ==
    IF search = <<>> \/ search = <<"?">> THEN <<>>
    ELSE IF Head(search) = "?" THEN search
    ELSE <<"?">> \o search

createLocation(to) == [pathname |-> to.pathname, search |-> normalizeSearch(to.search)]

\* navigate as it would act if it replaced the current entry
navigate_replace(to, replace) ==
    /\ entries' = [entries EXCEPT ![index] = createLocation(to)]
    /\ index' = index

\* navigate(to, { replace }): a push drops the forward entries and adds one
navigate(to, replace) ==
    IF replace
    THEN /\ entries' = [entries EXCEPT ![index] = createLocation(to)]
         /\ index' = index
    ELSE /\ entries' = Append(SubSeq(entries, 1, index), createLocation(to))
         /\ index' = index + 1

\* the drawer list a location holds
drawerParamsOf(loc) == getAll(URLSearchParams(loc.search), DRAWER)

\* the persisted list: the `drawer` parameters of the live URL
liveList == drawerParamsOf(windowLocation)

----------------------------------------------------------------------------
(* useDrawerStack *)

\* deriveStack as it would act if it listed the newest drawer first
deriveStack_reversed(drawerParams) ==
    [i \in 1..Len(drawerParams) |->
        [id |-> <<"drawer-", i - 1>>,
         path |-> drawerParams[Len(drawerParams) + 1 - i],
         level |-> i - 1]]

\* deriveStack as it would act if it numbered the entries from the top down
deriveStack_fromTop(drawerParams) ==
    [i \in 1..Len(drawerParams) |->
        [id |-> <<"drawer-", Len(drawerParams) - i>>,
         path |-> drawerParams[i],
         level |-> Len(drawerParams) - i]]

deriveStack(drawerParams) ==
    [i \in 1..Len(drawerParams) |->
        [id |-> <<"drawer-", i - 1>>, path |-> drawerParams[i], level |-> i - 1]]

hasDrawers == Len(drawerStack) > 0

currentDrawer == IF hasDrawers THEN drawerStack[Len(drawerStack)] ELSE "null"

\* the search string each mutator hands to navigate; sp is the searchParams
\* the callback closed over
\* pushDrawer as it would act if it refused a path that is already open
pushDrawerSearch_noDuplicate(path) ==
    LET cur == URLSearchParams(windowLocation.search)
    IN  IF \E i \in 1..Len(cur) : cur[i] = <<DRAWER, path>>
        THEN toString(cur)
        ELSE toString(append(cur, DRAWER, path))

\* pushDrawer as it would act if it appended to the render-time searchParams
pushDrawerSearch_snapshot(path) == toString(append(searchParams, DRAWER, path))

pushDrawerSearch(path) ==
    toString(append(URLSearchParams(windowLocation.search), DRAWER, path))

popDrawerSearch(sp) ==
    toString(appendAll(delete(sp, DRAWER), DRAWER, sliceButLast(getAll(sp, DRAWER))))

closeAllDrawersSearch(sp) == toString(delete(sp, DRAWER))

replaceDrawerSearch(sp, path) ==
    LET drawerParams == getAll(sp, DRAWER)
        cleared == delete(sp, DRAWER)
    IN  IF Len(drawerParams) = 0
        THEN toString(append(cleared, DRAWER, path))
        ELSE toString(append(appendAll(cleared, DRAWER, sliceButLast(drawerParams)),
                             DRAWER, path))

replaceDrawerStackSearch(sp, paths) ==
    toString(appendAll(delete(sp, DRAWER), DRAWER, paths))

NoRun == [args |-> <<>>, backs |-> 0]

\* pushDrawer of the hook, whatever the length of the history
pushDrawerCall(path) ==
    /\ navigate([pathname |-> pathname, search |-> pushDrawerSearch(path)], FALSE)
    /\ lastOp' = [op |-> "pushDrawer", arg |-> path]
    /\ run' = IF run.backs = 0
              THEN [args |-> Append(run.args, path), backs |-> 0]
              ELSE [args |-> <<path>>, backs |-> 0]
    /\ unrendered' = unrendered + 1
    /\ UNCHANGED <<hookVars, uiVars>>

pushDrawer(path) ==
    /\ index < MaxHist
    /\ unrendered < MaxBatch
    /\ Len(liveList) < MaxStack
    /\ pushDrawerCall(path)

popDrawer ==
    /\ index < MaxHist
    /\ unrendered < MaxBatch
    /\ IF Len(getAll(searchParams, DRAWER)) = 0
       THEN UNCHANGED <<hostVars, unrendered>>
       ELSE /\ navigate([pathname |-> pathname,
                         search |-> popDrawerSearch(searchParams)], FALSE)
            /\ unrendered' = unrendered + 1
    /\ lastOp' = [op |-> "popDrawer", arg |-> <<>>]
    /\ run' = NoRun
    /\ UNCHANGED <<hookVars, uiVars>>

closeAllDrawers ==
    /\ index < MaxHist
    /\ unrendered < MaxBatch
    /\ navigate([pathname |-> pathname,
                 search |-> closeAllDrawersSearch(searchParams)], FALSE)
    /\ lastOp' = [op |-> "closeAllDrawers", arg |-> <<>>]
    /\ run' = NoRun
    /\ unrendered' = unrendered + 1
    /\ UNCHANGED <<hookVars, uiVars>>

replaceDrawer(path) ==
    /\ index < MaxHist
    /\ unrendered < MaxBatch
    /\ navigate([pathname |-> pathname,
                 search |-> replaceDrawerSearch(searchParams, path)], FALSE)
    /\ lastOp' = [op |-> "replaceDrawer", arg |-> path]
    /\ run' = NoRun
    /\ unrendered' = unrendered + 1
    /\ UNCHANGED <<hookVars, uiVars>>

\* the lists replaceDrawerStack is called with
StackChoices == {<<>>, <<PathB>>, <<PathB, PathA>>}

replaceDrawerStack(paths) ==
    /\ index < MaxHist
    /\ unrendered < MaxBatch
    /\ navigate([pathname |-> pathname,
                 search |-> replaceDrawerStackSearch(searchParams, paths)], FALSE)
    /\ lastOp' = [op |-> "replaceDrawerStack", arg |-> paths]
    /\ run' = NoRun
    /\ unrendered' = unrendered + 1
    /\ UNCHANGED <<hookVars, uiVars>>

----------------------------------------------------------------------------
(* Host events *)

\* the browser's back button (a popstate event: it is handled after the render
\* that earlier navigations scheduled)
goBack ==
    /\ index > 1
    /\ unrendered = 0
    /\ index' = index - 1
    /\ UNCHANGED entries
    /\ lastOp' = [op |-> "goBack", arg |-> <<>>]
    /\ run' = IF run.backs < Len(run.args)
              THEN [run EXCEPT !.backs = @ + 1]
              ELSE NoRun
    /\ unrendered' = unrendered + 1
    /\ UNCHANGED <<hookVars, uiVars>>

\* the browser's forward button
goForward ==
    /\ index < Len(entries)
    /\ unrendered = 0
    /\ index' = index + 1
    /\ UNCHANGED entries
    /\ lastOp' = [op |-> "goForward", arg |-> <<>>]
    /\ run' = NoRun
    /\ unrendered' = unrendered + 1
    /\ UNCHANGED <<hookVars, uiVars>>

\* navigation elsewhere in the host: it toggles another query parameter of the
\* live URL and keeps the rest
hostNavigate ==
    LET cur == URLSearchParams(windowLocation.search)
        next == IF getAll(cur, TAB) = <<>>
                THEN append(cur, TAB, <<"1">>)
                ELSE delete(cur, TAB)
    IN  /\ index < MaxHist
        /\ unrendered < MaxBatch
        /\ navigate([pathname |-> windowLocation.pathname, search |-> toString(next)],
                    FALSE)
        /\ lastOp' = [op |-> "hostNavigate", arg |-> <<>>]
        /\ run' = NoRun
        /\ unrendered' = unrendered + 1
    /\ UNCHANGED <<hookVars, uiVars>>

\* state propagation: the router's location reaches the hook, which re-renders
propagate ==
    /\ searchParams' = URLSearchParams(windowLocation.search)
    /\ pathname' = windowLocation.pathname
    /\ drawerStack' = deriveStack(getAll(searchParams', DRAWER))

Render ==
    /\ propagate
    /\ unrendered' = 0
    /\ lastOp' = [op |-> "render", arg |-> <<>>]
    /\ UNCHANGED <<hostVars, uiVars, run>>

----------------------------------------------------------------------------
(* State of the components that are idle while the hook is exercised *)

Positions == 0..(MaxStack - 1)

\* a Drawer.Root as mounted: isDragging and dragOffset are its state,
\* dragStartY and initialHeight the refs of its Content, handleStartY and
\* parentHeight the refs of its Handle; a null ref is <<>>
IdlePanel ==
    [isDragging |-> FALSE, dragOffset |-> 0,
     dragStartY |-> <<>>, initialHeight |-> 0,
     handleStartY |-> <<>>, parentHeight |-> 0]

InitPanelsIdle ==
    /\ panels = [i \in Positions |-> IdlePanel]
    /\ handleOnly = TRUE
    /\ endListeners = <<>>

\* a DrawerContent that has not rendered
NotRendered == [kind |-> "none", view |-> "null", search |-> <<>>]

InitResolverIdle ==
    /\ routes = <<>>
    /\ drawerPath = <<>>
    /\ rendered = NotRendered

----------------------------------------------------------------------------
(* The hook on its own *)

\* drawer lists of the URL the application is loaded with
InitialStacks == {<<>>, <<PathA>>}

initialLocation(stack) ==
    createLocation([pathname |-> "/", search |-> toString(appendAll(<<>>, DRAWER, stack))])

InitHook(stack) ==
    /\ entries = <<initialLocation(stack)>>
    /\ index = 1
    /\ searchParams = URLSearchParams(initialLocation(stack).search)
    /\ pathname = "/"
    /\ drawerStack = deriveStack(getAll(searchParams, DRAWER))
    /\ unrendered = 0
    /\ lastOp = [op |-> "init", arg |-> <<>>]
    /\ run = NoRun

InitUIIdle ==
    /\ bodyOverflow = ""
    /\ listenersAttached = {}
    /\ openDrawers = <<>>
    /\ closingDrawers = {}
    /\ draggingDrawers = {}
    /\ openTimers = <<>>
    /\ closeTimers = <<>>
    /\ cleanupTimers = <<>>
    /\ InitPanelsIdle
    /\ InitResolverIdle

Init == \E stack \in InitialStacks : InitHook(stack) /\ InitUIIdle

Next ==
    \/ \E path \in Paths : pushDrawer(path)
    \/ popDrawer
    \/ closeAllDrawers
    \/ \E path \in Paths : replaceDrawer(path)
    \/ \E paths \in StackChoices : replaceDrawerStack(paths)
    \/ goBack
    \/ goForward
    \/ hostNavigate
    \/ Render

Spec == Init /\ [][Next]_vars

----------------------------------------------------------------------------
(* DrawerStack: the component that renders the stack and runs the close     *)
(* sequence. Stack positions are 0-based, as in the source.                 *)
(*                                                                          *)
(* Every step of the component is one task of the event loop (an event      *)
(* handler or a timer callback). React commits the render a task scheduled  *)
(* before the next task runs, so a task starts with unrendered = 0; what a  *)
(* timer callback sees of the hook is what the render that created it saw.  *)
(* Navigation is explored once the 10 ms open timers have fired.            *)

\* arr[i] = value on a copy of a JavaScript array: writing past the end
\* leaves holes, which read as undefined
setAt(arr, i, value) ==
    LET n == IF i + 1 > Len(arr) THEN i + 1 ELSE Len(arr)
    IN  [k \in 1..n |-> IF k = i + 1 THEN value
                        ELSE IF k <= Len(arr) THEN arr[k]
                        ELSE "undefined"]

RECURSIVE setRange(_, _, _, _)
\* for (let i = from; i < to; i++) arr[i] = value
setRange(arr, from, to, value) ==
    IF from >= to THEN arr
    ELSE setRange(setAt(arr, from, value), from + 1, to, value)

\* the updater of the open-state sync effect, for a stack of n drawers
syncOpenDrawers(prev, n) ==
    IF n > Len(prev) THEN setRange(prev, Len(prev), n, "false")
    ELSE IF n < Len(prev) THEN SubSeq(prev, 1, n)
    ELSE prev

\* the timers the sync effect leaves pending
syncOpenTimers(prev, n) ==
    IF n > Len(prev)
    THEN Append(openTimers, [from |-> Len(prev), to |-> n])
    ELSE openTimers

\* the open prop of the panel at a position
isOpen(i) == i + 1 <= Len(openDrawers) /\ openDrawers[i + 1] = "true"

\* the panels of a stack of n drawers: a Drawer.Root is keyed by its position
\* and loses its state when its position leaves the stack
mountedPanels(prev, n) == [i \in Positions |-> IF i < n THEN prev[i] ELSE IdlePanel]

\* the effect of Drawer.Content that clears the drag offset when the open
\* prop turns false
resetOffsetOnClose(prev, levels) ==
    [i \in Positions |->
        IF i \in levels /\ isOpen(i) THEN [prev[i] EXCEPT !.dragOffset = 0]
        ELSE prev[i]]

\* the open prop a flag array gives the panel at a position
openProp(arr, i) == i + 1 <= Len(arr) /\ arr[i + 1] = "true"

\* the greatest position of a non-empty set
lastOf(levels) == CHOOSE i \in levels : \A k \in levels : k <= i

\* document.body.style.overflow after a commit that takes a stack of prevN
\* panels with the flags prevOpen to one of nextN panels with the flags
\* nextOpen. The body-scroll effect of Drawer.Content depends on [open]: the
\* cleanups of the panels that unmount or whose open prop changed run first
\* and write "unset", then the effects of the panels that mounted or whose
\* open prop changed run in the order of the positions, each writing "hidden"
\* if its panel is open and "unset" if not.
bodyOverflowAfter(prev, prevOpen, prevN, nextOpen, nextN) ==
    LET ran == {i \in 0..(nextN - 1) :
                   i >= prevN \/ openProp(prevOpen, i) # openProp(nextOpen, i)}
    IN  IF ran # {}
        THEN IF openProp(nextOpen, lastOf(ran)) THEN "hidden" ELSE "unset"
        ELSE IF nextN < prevN THEN "unset"
        ELSE prev

\* the body-scroll effects of the panels, run for the commit of a step that
\* ends with a stack of nextN panels
bodyScrollEffect(nextN) ==
    bodyOverflow' = bodyOverflowAfter(bodyOverflow, openDrawers, Len(drawerStack),
                                      openDrawers', nextN)

\* The outside-click effect of Drawer.Content depends on the callbacks
\* DrawerStack passes, which are new functions at every render of DrawerStack:
\* each such render detaches the listener of every panel, clears its pending
\* timeout and, for an open panel, sets a new timeout of 100 ms that attaches
\* it again.
listenersAfter(rendersAgain) ==
    listenersAttached' = IF rendersAgain THEN {} ELSE listenersAttached

\* the open panels whose timeout of 100 ms is pending
awaitingListener ==
    {i \in 0..(Len(drawerStack) - 1) : isOpen(i) /\ i \notin listenersAttached}

\* the 100 ms timeout of the outside-click effect of one panel. The effects
\* of the last render of DrawerStack set one timeout per open panel, in the
\* order of the positions, so they fire in that order, each in a task of its
\* own; they fall due after the 10 ms and 50 ms timers pending then
attachOutsideListener ==
    /\ unrendered = 0
    /\ awaitingListener # {}
    /\ openTimers = <<>>
    /\ cleanupTimers = <<>>
    /\ LET first == CHOOSE i \in awaitingListener :
                        \A j \in awaitingListener : i <= j
       IN  /\ listenersAttached' = listenersAttached \cup {first}
           /\ lastOp' = [op |-> "attachOutsideListener", arg |-> first]
    /\ UNCHANGED <<hostVars, hookVars, openDrawers, closingDrawers,
                   draggingDrawers, openTimers, closeTimers, cleanupTimers,
                   bodyOverflow, unrendered, gestureVars, resolverVars, run>>

RECURSIVE ascending(_, _)
\* the positions of levels from k up, in their order
ascending(levels, k) ==
    IF k >= MaxStack THEN <<>>
    ELSE (IF k \in levels THEN <<k>> ELSE <<>>) \o ascending(levels, k + 1)

RECURSIVE keepOnly(_, _)
\* Array.prototype.filter: the positions of seq that are in levels
keepOnly(seq, levels) ==
    IF seq = <<>> THEN <<>>
    ELSE (IF Head(seq) \in levels THEN <<Head(seq)>> ELSE <<>>)
             \o keepOnly(Tail(seq), levels)

\* The effect of Drawer.Content that attaches its mousemove, mouseup,
\* touchmove and touchend listeners depends on handleDragMove and
\* handleDragEnd, which depend on the onDrag, onRelease and onOpenChange
\* DrawerStack passes: a render of DrawerStack makes every dragging panel
\* detach its listeners and attach new ones, in the order of the positions.
draggingListenersAfter(dragging) == endListeners' = ascending(dragging, 0)

\* state propagation with DrawerStack mounted: the hook re-renders and the
\* sync effect runs if the stack length changed
RenderStack ==
    /\ propagate
    /\ panels' = mountedPanels(panels, Len(drawerStack'))
    /\ IF Len(drawerStack') # Len(drawerStack)
       THEN /\ openDrawers' = syncOpenDrawers(openDrawers, Len(drawerStack'))
            /\ openTimers' = syncOpenTimers(openDrawers, Len(drawerStack'))
       ELSE UNCHANGED <<openDrawers, openTimers>>
    /\ bodyScrollEffect(Len(drawerStack'))
    /\ listenersAfter(TRUE)
    /\ draggingListenersAfter({i \in Positions : panels'[i].isDragging})
    /\ unrendered' = 0
    /\ lastOp' = [op |-> "render", arg |-> <<>>]
    /\ UNCHANGED <<hostVars, closingDrawers, draggingDrawers, closeTimers,
                   cleanupTimers, handleOnly, resolverVars, run>>

\* Timers fire in the order they fall due. A 10 ms open timer that was pending
\* when a 250 ms close timer or a 50 ms cleanup timer was set falls due before
\* it; the field before of such a timer counts the open timers that were
\* pending when it was set and have not fired yet.
oneOpenTimerLess(timer) ==
    IF timer.before > 0 THEN [timer EXCEPT !.before = @ - 1] ELSE timer

\* the 10 ms timer of the sync effect
openTimerFire ==
    /\ unrendered = 0
    /\ openTimers # <<>>
    /\ openDrawers' = setRange(openDrawers, Head(openTimers).from,
                               Head(openTimers).to, "true")
    /\ openTimers' = Tail(openTimers)
    /\ bodyScrollEffect(Len(drawerStack))
    /\ listenersAfter(TRUE)
    /\ closeTimers' = [k \in 1..Len(closeTimers) |-> oneOpenTimerLess(closeTimers[k])]
    /\ cleanupTimers' =
           [k \in 1..Len(cleanupTimers) |-> oneOpenTimerLess(cleanupTimers[k])]
    /\ draggingListenersAfter({i \in Positions : panels[i].isDragging})
    /\ lastOp' = [op |-> "openTimer", arg |-> Head(openTimers)]
    /\ UNCHANGED <<hostVars, hookVars, closingDrawers, draggingDrawers,
                   unrendered, panels, handleOnly, resolverVars, run>>

RECURSIVE closeFlags(_, _)
\* openDrawers after the updaters handleDrawerClose queues for the levels of
\* calls: newOpen[level] = false on a copy, whatever the level
closeFlags(arr, calls) ==
    IF calls = <<>> THEN arr
    ELSE closeFlags(setAt(arr, Head(calls), "false"), Tail(calls))

\* the timers handleDrawerClose sets for the levels of calls; a timer keeps the
\* values of the render it was created in
closeTimersFor(calls) ==
    [k \in 1..Len(calls) |->
        [level |-> calls[k], len |-> Len(drawerStack),
         searchParams |-> searchParams, pathname |-> pathname,
         before |-> Len(openTimers)]]

\* the dragging panels whose drag offset the effect of Drawer.Content clears
\* when the flags of levels turn false: setDragOffset(0) changes their state
offsetCleared(levels) ==
    {i \in Positions : /\ i \in levels
                        /\ isOpen(i)
                        /\ panels[i].isDragging
                        /\ panels[i].dragOffset # 0}

\* The render of DrawerStack that follows a close request attaches the
\* mouseup and touchend listeners of the dragging panels again, in the order
\* of the positions. A panel whose offset the effect then clears renders once
\* more: its handleDragEnd depends on dragOffset, so it detaches its
\* listeners and attaches new ones, behind those of the other panels.
draggingListenersAfterClose(levels) ==
    LET dragging == {i \in Positions : panels[i].isDragging}
        cleared == offsetCleared(levels)
    IN  endListeners' = ascending(dragging \ cleared, 0) \o ascending(cleared, 0)

\* handleDrawerClose(level) for each level of calls, in the order of the calls
\* one task makes, and the commit that follows. The function does not look at
\* the level: it marks it closing, writes its flag and sets its timer.
closeRequests(calls) ==
    /\ closingDrawers' = closingDrawers \cup {calls[k] : k \in 1..Len(calls)}
    /\ openDrawers' = closeFlags(openDrawers, calls)
    /\ closeTimers' = closeTimers \o closeTimersFor(calls)
    /\ panels' = resetOffsetOnClose(panels, {calls[k] : k \in 1..Len(calls)})
    /\ bodyScrollEffect(Len(drawerStack))
    /\ listenersAfter(calls # <<>>)
    /\ IF calls # <<>>
       THEN draggingListenersAfterClose({calls[k] : k \in 1..Len(calls)})
       ELSE UNCHANGED endListeners

\* const handleDrawerClose = (level: number) => { ... }
handleDrawerClose(level) == closeRequests(<<level>>)

\* the close button (onClose) or onOpenChange(false) of the panel DrawerStack
\* renders at position ix: drawerStack.map((drawer, index) => ...) renders a
\* panel for the positions of the stack and no other
panelClose(ix) ==
    /\ unrendered = 0
    /\ ix \in 0..(Len(drawerStack) - 1)
    /\ Len(closeTimers) + Len(cleanupTimers) < MaxTimers
    /\ handleDrawerClose(ix)
    /\ lastOp' = [op |-> "handleDrawerClose", arg |-> ix]
    /\ run' = NoRun
    /\ UNCHANGED <<hostVars, hookVars, draggingDrawers, openTimers, cleanupTimers,
                   unrendered, handleOnly, resolverVars>>

\* levels a popDrawerAnimated event may carry: the positions of the stack, the
\* one below the bottom and the one above the top
EventLevels == (0 - 1)..MaxStack

\* the check of the listener as it would be with the length itself let through
levelInStack_inclusive(level) == level >= 0 /\ level <= Len(drawerStack)

\* level >= 0 && level < drawerStack.length
levelInStack(level) == level >= 0 /\ level < Len(drawerStack)

\* the listener of the popDrawerAnimated window event: handleDrawerClose(level)
\* behind the check of the level. lastOp names handleDrawerClose and the level
\* where the listener called it, and the event with no position (-1) where it
\* ignored it
handlePopDrawerAnimated(level) ==
    /\ unrendered = 0
    /\ level <= Len(drawerStack)
    /\ IF levelInStack(level)
       THEN /\ Len(closeTimers) + Len(cleanupTimers) < MaxTimers
            /\ handleDrawerClose(level)
       ELSE closeRequests(<<>>)
    /\ lastOp' = IF levelInStack(level)
                 THEN [op |-> "handleDrawerClose", arg |-> level]
                 ELSE [op |-> "popDrawerAnimated", arg |-> 0 - 1]
    /\ run' = NoRun
    /\ UNCHANGED <<hostVars, hookVars, draggingDrawers, openTimers, cleanupTimers,
                   unrendered, handleOnly, resolverVars>>

\* the names of the object useDrawerStack returns
hookReturns == {"drawerStack", "hasDrawers", "currentDrawer", "pushDrawer",
                "popDrawer", "replaceDrawer", "closeAllDrawers",
                "replaceDrawerStack"}

\* DrawerStack takes popDrawerInternal and closeAllDrawers out of the object
\* the hook returns. A name the hook does not return is undefined there, and
\* the call of it throws TypeError: the timer callback ends at the call, and
\* neither navigates nor sets the cleanup timer.
callThrows(name) == name \notin hookReturns

\* the mutation the close timer issues for a position of a stack of len drawers
closeMutation(level, len) ==
    IF level = len - 1 THEN "popDrawerInternal" ELSE "closeAllDrawers"

\* the close timer found the URL it was requested on
sameUrl(timer) ==
    /\ timer.searchParams = URLSearchParams(windowLocation.search)
    /\ timer.pathname = windowLocation.pathname

\* the animationDuration timer of handleDrawerClose
closeTimerFire ==
    /\ closeTimers # <<>>
    /\ index < MaxHistUI
    /\ unrendered = 0
    /\ Head(closeTimers).before = 0
    /\ LET timer == Head(closeTimers)
           mutation == closeMutation(timer.level, timer.len)
       IN  /\ IF callThrows(mutation)
              THEN UNCHANGED <<hostVars, unrendered, cleanupTimers>>
              ELSE /\ navigate([pathname |-> timer.pathname,
                                search |-> closeAllDrawersSearch(timer.searchParams)],
                               FALSE)
                   /\ unrendered' = unrendered + 1
                   /\ cleanupTimers' = Append(cleanupTimers,
                                               [level |-> timer.level,
                                                before |-> Len(openTimers)])
           /\ lastOp' = [op |-> "closeTimer",
                         arg |-> [level |-> timer.level, len |-> timer.len,
                                  sameUrl |-> sameUrl(timer),
                                  threw |-> callThrows(mutation)]]
    /\ closeTimers' = Tail(closeTimers)
    /\ run' = NoRun
    /\ UNCHANGED <<hookVars, openDrawers, closingDrawers, draggingDrawers, openTimers,
                   bodyOverflow, listenersAttached, gestureVars, resolverVars>>

\* the 50 ms timer that clears the closing mark
cleanupTimerFire ==
    /\ unrendered = 0
    /\ cleanupTimers # <<>>
    /\ Head(cleanupTimers).before = 0
    /\ closingDrawers' = closingDrawers \ {Head(cleanupTimers).level}
    /\ cleanupTimers' = Tail(cleanupTimers)
    /\ listenersAfter(TRUE)
    /\ draggingListenersAfter({i \in Positions : panels[i].isDragging})
    /\ lastOp' = [op |-> "cleanupTimer", arg |-> Head(cleanupTimers).level]
    /\ UNCHANGED <<hostVars, hookVars, openDrawers, draggingDrawers, openTimers,
                   closeTimers, bodyOverflow, unrendered, panels, handleOnly,
                   resolverVars, run>>

\* the render of DrawerStack: depth of each panel below the top of the
\* effective stack
RECURSIVE filterNotClosing(_, _)
\* drawerStack.filter((_, i) => !closingDrawers.has(i)), from 1-based index k
filterNotClosing(stack, k) ==
    IF k > Len(stack) THEN <<>>
    ELSE (IF (k - 1) \in closingDrawers THEN <<>> ELSE <<stack[k]>>)
         \o filterNotClosing(stack, k + 1)

\* the effective stack as it would be if closing drawers were kept in it
effectiveStack_unfiltered == drawerStack

effectiveStack == filterNotClosing(drawerStack, 1)

\* Array.prototype.findIndex on the id: 0-based, -1 when there is none
findIndex(stack, id) ==
    IF \E k \in 1..Len(stack) : stack[k].id = id
    THEN (CHOOSE k \in 1..Len(stack) :
             /\ stack[k].id = id
             /\ \A m \in 1..(k - 1) : stack[m].id # id) - 1
    ELSE -1

effectiveIndex(i) == findIndex(effectiveStack, drawerStack[i + 1].id)

\* the depth as it would be if closing drawers were counted
depthFromTop_unfiltered(i) == Len(drawerStack) - 1 - i

\* the factor of STACK_GAP and STACK_SQUEEZE in the transform of position i
depthFromTop(i) == Len(effectiveStack) - 1 - effectiveIndex(i)

\* default of the STACK_GAP prop, in px
STACK_GAP == 40
\* default of the STACK_SQUEEZE prop (0.04), in hundredths
STACK_SQUEEZE == 4

\* the transform style of the panel at position i: none while it is dragged,
\* off screen while its open flag is not true, else translated up and
\* squeezed by its depth (scale in hundredths)
transform(i) ==
    IF i \in draggingDrawers THEN [kind |-> "none", y |-> 0, scale |-> 100]
    ELSE IF ~isOpen(i) THEN [kind |-> "offscreen", y |-> 0, scale |-> 100]
    ELSE [kind |-> "stacked",
          y |-> depthFromTop(i) * (0 - STACK_GAP),
          scale |-> 100 - depthFromTop(i) * STACK_SQUEEZE]

\* zIndex of the overlay of position i: const zIndex = 50 + index
overlayZIndex(i) == 50 + i

\* zIndex of the content of position i: zIndex + 1
contentZIndex(i) == overlayZIndex(i) + 1

\* the transition style of the panel at position i
transition(i) ==
    IF i \in draggingDrawers THEN "none"
    ELSE "transform 250ms cubic-bezier(0.68, 0, 0.265, 1)"

\* where a pointer-down outside every drawer's content lands: on the page or
\* an overlay, or inside the element marked data-toast-container
OutsideTargets == {"page", "toast"}

\* the toast check as it would be if no target counted as inside the container
insideToast_never(target) == FALSE

\* toastContainer && toastContainer.contains(target)
insideToast(target) == target = "toast"

\* index === drawerStack.length - 1
respondsToOutside(i) == i = Len(drawerStack) - 1

\* event.defaultPrevented after onPointerDownOutside and onInteractOutside of
\* DrawerStack have run: both call preventDefault on every path, which sets
\* the flag of a cancelable event and leaves that of any other event false
defaultPrevented(cancelable) == cancelable

\* the calls of handleDrawerClose the document listener of panel i makes for a
\* pointer-down at target: handleDrawerClose(index) from onPointerDownOutside
\* of DrawerStack for the top panel, then onOpenChange(false) from the
\* content's own handler if the default was not prevented
outsideCalls(i, target, cancelable) ==
    IF insideToast(target) THEN <<>>
    ELSE (IF respondsToOutside(i) THEN <<i>> ELSE <<>>)
             \o (IF defaultPrevented(cancelable) THEN <<>> ELSE <<i>>)

RECURSIVE closedByOutside(_, _, _, _)
\* the calls of the listeners of the panels of listening from k up; the
\* listeners are called in the order they were attached
closedByOutside(listening, target, cancelable, k) ==
    IF k >= MaxStack THEN <<>>
    ELSE (IF k \in listening THEN outsideCalls(k, target, cancelable) ELSE <<>>)
             \o closedByOutside(listening, target, cancelable, k + 1)

\* the panels whose document listener is attached: open ones whose timeout of
\* 100 ms has fired since the last render of DrawerStack
listeningPanels == {i \in listenersAttached : isOpen(i)}

\* a pointerdown outside every drawer's content: it reaches the document
\* listeners that are attached. The pointerdown of a pointing device is
\* cancelable; one that is not comes from dispatchEvent, which calls every
\* listener before React commits anything. For a cancelable one only the
\* listener of the top panel changes state, so the commit after it, which
\* detaches the listeners still to be called, changes nothing.
pointerDownOutside(target, cancelable) ==
    LET calls == closedByOutside(listeningPanels, target, cancelable, 0)
    IN  /\ unrendered = 0
        /\ listeningPanels # {}
        /\ Len(closeTimers) + Len(cleanupTimers) + Len(calls) <= MaxTimers
        /\ closeRequests(calls)
        /\ lastOp' = [op |-> "pointerDownOutside",
                      arg |-> [target |-> target, calls |-> calls]]
        /\ run' = NoRun
        /\ UNCHANGED <<hostVars, hookVars, draggingDrawers, openTimers,
                       cleanupTimers, unrendered, handleOnly, resolverVars>>

\* drawer paths the views open
PathsUI == {PathA}

\* a view inside a drawer opens another drawer
handleNavigateInDrawer(path) ==
    /\ unrendered = 0
    /\ openTimers = <<>>
    /\ index < MaxHistUI
    /\ Len(liveList) < MaxStack
    /\ pushDrawerCall(path)

\* the browser's back button, pressed while no close sequence is in flight
backWhenSettled ==
    /\ openTimers = <<>>
    /\ closeTimers = <<>>
    /\ cleanupTimers = <<>>
    /\ goBack

\* drawer lists of the URL the application is loaded with
InitialStacksUI == {<<PathA, PathB>>}

\* DrawerStack after its first render and the sync effect of the mount
InitStack(stack) ==
    /\ InitHook(stack)
    /\ openDrawers = syncOpenDrawers(<<>>, Len(stack))
    /\ bodyOverflow = bodyOverflowAfter("", <<>>, 0, openDrawers, Len(stack))
    /\ listenersAttached = {}
    /\ openTimers = IF Len(stack) > 0
                    THEN <<[from |-> 0, to |-> Len(stack)]>>
                    ELSE <<>>
    /\ closingDrawers = {}
    /\ draggingDrawers = {}
    /\ closeTimers = <<>>
    /\ cleanupTimers = <<>>

InitUI ==
    \E stack \in InitialStacksUI :
        /\ InitStack(stack)
        /\ InitPanelsIdle
        /\ InitResolverIdle

NextUI ==
    \/ \E path \in PathsUI : handleNavigateInDrawer(path)
    \/ \E ix \in Positions : panelClose(ix)
    \/ \E level \in EventLevels : handlePopDrawerAnimated(level)
    \/ \E target \in OutsideTargets :
          \E cancelable \in BOOLEAN : pointerDownOutside(target, cancelable)
    \/ closeTimerFire
    \/ cleanupTimerFire
    \/ openTimerFire
    \/ attachOutsideListener
    \/ backWhenSettled
    \/ RenderStack

SpecUI == InitUI /\ [][NextUI]_vars

----------------------------------------------------------------------------
(* CustomVerticalDrawer: the drag gesture of a panel. Coordinates and heights *)
(* are whole pixels. DrawerStack renders its panels with handleOnly = true;   *)
(* the component itself also serves handleOnly = false, where the whole body  *)
(* is the drag surface.                                                       *)

\* largest clientY of a pointer event
MaxCoord == 5
\* clientY of a press
PressCoords == {1, 2}
\* heights a panel is measured with at drag start
Extents == {0, 10}
Surfaces == {"body", "handle"}

\* positions whose Drawer.Root has isDragging set: their document listeners
\* are attached
Dragging == {i \in Positions : panels[i].isDragging}

\* the delta as it would be without the clamp
clampedDelta_signed(y, start) == y - start

\* Math.max(0, clientY - dragStartY.current)
clampedDelta(y, start) == IF y - start > 0 THEN y - start ELSE 0

\* DrawerContent.handleDragStart, for a press at y on a panel of height h
contentDragStart(p, y, h) ==
    [p EXCEPT !.dragStartY = <<y>>, !.initialHeight = h, !.isDragging = TRUE]

\* DrawerHandle.handleDragStart
handleDragStart(p, y, h) ==
    [p EXCEPT !.handleStartY = <<y>>, !.parentHeight = h, !.isDragging = TRUE]

\* a mousedown or touchstart on a mounted panel, open or not. With handleOnly
\* the content has no press handler and the handle has its own listener;
\* without it the handle has none and the press reaches the content's handler.
press(level, surface, y, h) ==
    /\ unrendered = 0
    /\ level < Len(drawerStack)
    /\ Cardinality(Dragging \cup {level}) + Len(closeTimers) + Len(cleanupTimers)
           <= MaxTimers
    /\ IF handleOnly /\ surface = "body"
       THEN UNCHANGED <<panels, draggingDrawers>>
       ELSE /\ panels' = [panels EXCEPT ![level] =
                             IF handleOnly THEN handleDragStart(@, y, h)
                             ELSE contentDragStart(@, y, h)]
            /\ draggingDrawers' = draggingDrawers \cup {level}
    /\ listenersAfter(~(handleOnly /\ surface = "body"))
    /\ IF handleOnly /\ surface = "body" THEN UNCHANGED endListeners
       ELSE draggingListenersAfter(Dragging \cup {level})
    /\ lastOp' = [op |-> "press",
                  arg |-> [level |-> level, surface |-> surface, y |-> y]]
    /\ UNCHANGED <<hostVars, hookVars, openDrawers, closingDrawers, openTimers,
                   closeTimers, cleanupTimers, bodyOverflow, unrendered,
                   handleOnly, resolverVars, run>>

\* DrawerContent.handleDragMove
contentDragMove(p, y) ==
    IF ~p.isDragging \/ p.dragStartY = <<>> THEN p
    ELSE [p EXCEPT !.dragOffset = clampedDelta(y, p.dragStartY[1])]

\* DrawerHandle.handleDragMove
handleDragMove(p, y) ==
    IF p.handleStartY = <<>> THEN p
    ELSE [p EXCEPT !.dragOffset = clampedDelta(y, p.handleStartY[1])]

\* the move handler called onDrag
reportsDrag(p) ==
    IF handleOnly THEN p.handleStartY # <<>> /\ p.parentHeight > 0
    ELSE p.dragStartY # <<>> /\ p.initialHeight > 0

\* a mousemove or touchmove: it reaches the document listeners of every
\* panel that is dragging; the handle's are attached only with handleOnly.
\* A move that calls no onDrag leaves DrawerStack as it is rendered; a panel
\* whose dragOffset it changed renders again with a new handleDragEnd
\* (dragOffset is one of its dependencies), and the effect of its content
\* attaches its listeners again, after those of the other panels.
move(y) ==
    /\ unrendered = 0
    /\ Dragging # {}
    /\ panels' = [i \in Positions |->
                     IF i \notin Dragging THEN panels[i]
                     ELSE IF handleOnly
                          THEN contentDragMove(handleDragMove(panels[i], y), y)
                          ELSE contentDragMove(panels[i], y)]
    /\ draggingDrawers' =
           draggingDrawers \cup {i \in Dragging : reportsDrag(panels[i])}
    /\ listenersAfter(\E i \in Dragging : reportsDrag(panels[i]))
    /\ LET moved == {i \in Dragging : panels'[i].dragOffset # panels[i].dragOffset}
       IN  IF \E i \in Dragging : reportsDrag(panels[i])
           THEN draggingListenersAfter(Dragging)
           ELSE endListeners' = keepOnly(endListeners, Dragging \ moved)
                                    \o ascending(moved, 0)
    /\ lastOp' = [op |-> "move", arg |-> y]
    /\ UNCHANGED <<hostVars, hookVars, openDrawers, closingDrawers, openTimers,
                   closeTimers, cleanupTimers, bodyOverflow, unrendered,
                   handleOnly, resolverVars, run>>

\* the translateY the panel is rendered with on top of its resting transform
visualOffset(p) == IF p.isDragging /\ p.dragOffset > 0 THEN p.dragOffset ELSE 0

\* the height the gesture recorded at drag start
recordedExtent(p) == IF handleOnly THEN p.parentHeight ELSE p.initialHeight

\* DrawerContent.handleDragEnd: dragOffset > initialHeight.current * 0.3
shouldClose(p) == 10 * p.dragOffset > 3 * p.initialHeight

\* DrawerHandle.handleDragEnd
handleDragEnd(p) == [p EXCEPT !.isDragging = FALSE, !.handleStartY = <<>>]

\* DrawerContent.handleDragEnd, with the open-prop effect that follows a close
contentDragEnd(p, i) ==
    [p EXCEPT !.isDragging = FALSE,
              !.dragStartY = <<>>,
              !.dragOffset = IF shouldClose(p) /\ ~isOpen(i) THEN @ ELSE 0]

\* the calls of onRelease one mouseup or touchend makes for a dragging panel:
\* one by the handle's listener if it is attached, one by the content's if it
\* runs
onReleaseCalls(contentRuns) ==
    (IF handleOnly THEN 1 ELSE 0) + (IF contentRuns THEN 1 ELSE 0)

\* the dragging panel whose mouseup and touchend listener comes first on
\* document. The listeners of the handles are attached by the effects of a
\* render of DrawerStack, in the order of the positions, and with handleOnly
\* the handle of a panel comes before its content; without handleOnly the
\* handles have none and the contents' come in the order of endListeners.
firstDragging ==
    IF handleOnly THEN CHOOSE i \in Dragging : \A j \in Dragging : i <= j
    ELSE Head(endListeners)

\* a mouseup or touchend. The document listeners of the dragging panels are
\* called in the order they were attached, for each panel first the handle's
\* (with handleOnly), then the content's, which is attached by an effect that
\* does not look at handleOnly. Dispatched from a script (attached = TRUE),
\* all of them run before React commits anything: every dragging panel ends
\* its gesture, and each callback is the one of the last render, which sees
\* isDragging and the rendered dragOffset. Coming from the user
\* (attached = FALSE), React commits the updates of a listener before the
\* next one is called: the first listener ends the gesture of its panel and
\* calls onRelease, the render of DrawerStack that follows hands every panel
\* new onDrag and onRelease functions, and the effects detach the listeners
\* that were still to be called and attach new ones, which this event does
\* not reach. The other panels stay as they are.
release(attached) ==
    LET ended == IF attached \/ Dragging = {} THEN Dragging ELSE {firstDragging}
        contentRuns == ~handleOnly \/ attached
        committed == {i \in ended : contentRuns /\ shouldClose(panels[i])}
        calls == keepOnly(endListeners, committed)
    IN  /\ unrendered = 0
        /\ Dragging # {}
        /\ panels' = [i \in Positions |->
                         IF i \notin ended THEN panels[i]
                         ELSE IF ~handleOnly THEN contentDragEnd(panels[i], i)
                         ELSE IF attached
                              THEN contentDragEnd(handleDragEnd(panels[i]), i)
                              ELSE handleDragEnd(panels[i])]
        /\ closingDrawers' = closingDrawers \cup committed
        /\ openDrawers' = closeFlags(openDrawers, calls)
        /\ bodyScrollEffect(Len(drawerStack))
        /\ closeTimers' = closeTimers \o closeTimersFor(calls)
        /\ draggingDrawers' = draggingDrawers \ ended
        /\ listenersAfter(TRUE)
        /\ draggingListenersAfter(Dragging \ ended)
        /\ lastOp' = [op |-> "release",
                      arg |-> {[level |-> i,
                                offset |-> panels[i].dragOffset,
                                extent |-> recordedExtent(panels[i]),
                                closed |-> i \in committed,
                                released |-> onReleaseCalls(contentRuns)] :
                               i \in ended}]
        /\ run' = NoRun
        /\ UNCHANGED <<hostVars, hookVars, openTimers, cleanupTimers, unrendered,
                       handleOnly, resolverVars>>

\* drawer lists of the URL the application is loaded with
InitialStacksGesture == {<<PathA, PathB>>}

InitGesture ==
    \E stack \in InitialStacksGesture :
        /\ InitStack(stack)
        /\ panels = [i \in Positions |-> IdlePanel]
        /\ handleOnly \in BOOLEAN
        /\ endListeners = <<>>
        /\ InitResolverIdle

NextGesture ==
    \/ \E level \in Positions : \E surface \in Surfaces :
          \E y \in PressCoords : \E h \in Extents : press(level, surface, y, h)
    \/ \E y \in 0..MaxCoord : move(y)
    \/ \E attached \in BOOLEAN : release(attached)
    \/ closeTimerFire
    \/ cleanupTimerFire
    \/ openTimerFire
    \/ RenderStack

SpecGesture == InitGesture /\ [][NextGesture]_vars

----------------------------------------------------------------------------
(* routeUtils and DrawerContent: which view a drawer path renders. A route    *)
(* node is [path, element, children]; a missing path is <<>>, a missing       *)
(* element is "null".                                                         *)

RECURSIVE collapseSlashes(_)
\* String.prototype.replace(/\/+/g, "/")
collapseSlashes(str) ==
    IF str = <<>> THEN <<>>
    ELSE IF Head(str) = "/" /\ Len(str) > 1 /\ str[2] = "/"
         THEN collapseSlashes(Tail(str))
    ELSE <<Head(str)>> \o collapseSlashes(Tail(str))

\* the fullPath flattenRoutes gives a route below parentPath
fullPathOf(path, parentPath) ==
    IF path = <<>> THEN parentPath
    ELSE IF parentPath = <<"/">>
         THEN (IF path = <<"/">> THEN <<"/">> ELSE <<"/">> \o path)
    ELSE collapseSlashes(parentPath \o <<"/">> \o path)

RECURSIVE flattenRoutes(_, _)
flattenRoutes(rs, parentPath) ==
    IF rs = <<>> THEN <<>>
    ELSE LET route == Head(rs)
             fullPath == fullPathOf(route.path, parentPath)
         IN  <<[route EXCEPT !.path = fullPath]>>
             \o flattenRoutes(route.children, fullPath)
             \o flattenRoutes(Tail(rs), parentPath)

RECURSIVE stripLeadingSlashes(_)
stripLeadingSlashes(str) ==
    IF str # <<>> /\ Head(str) = "/" THEN stripLeadingSlashes(Tail(str)) ELSE str

RECURSIVE stripTrailingSlashes(_)
stripTrailingSlashes(str) ==
    IF str # <<>> /\ str[Len(str)] = "/"
    THEN stripTrailingSlashes(SubSeq(str, 1, Len(str) - 1))
    ELSE str

\* path.replace(/\/*\*?$/, ""): the pattern without its final "*", if it has
\* one, and without the slashes that end what is left
stripPatternEnd(pattern) ==
    IF pattern # <<>> /\ pattern[Len(pattern)] = "*"
    THEN stripTrailingSlashes(SubSeq(pattern, 1, Len(pattern) - 1))
    ELSE stripTrailingSlashes(pattern)

\* react-router compilePath: .replace(/\/*\*?$/, "").replace(/^\/*/, "/"), the
\* pattern without its end and with exactly one leading slash
normalizePattern(pattern) ==
    <<"/">> \o stripLeadingSlashes(stripPatternEnd(pattern))

RECURSIVE toCodeUnits(_)
\* a string as the UTF-16 code units a JavaScript string holds: a character
\* above U+FFFF is a high and a low surrogate
toCodeUnits(str) ==
    IF str = <<>> THEN <<>>
    ELSE LET cp == codeOf(Head(str))
         IN  (IF cp >= 65536
              THEN <<charOf(55296 + ((cp - 65536) \div 1024)),
                     charOf(56320 + ((cp - 65536) % 1024))>>
              ELSE <<Head(str)>>) \o toCodeUnits(Tail(str))

\* the characters compilePath escapes: [\\.*+^${}|()[\]]
RegExpSpecial ==
    {"U+5C", ".", "*", "+", "^", "$", "{", "}", "|", "(", ")", "[", "]"}

RECURSIVE escapeSpecial(_)
\* .replace(/[\\.*+^${}|()[\]]/g, "\\$&")
escapeSpecial(str) ==
    IF str = <<>> THEN <<>>
    ELSE (IF Head(str) \in RegExpSpecial THEN <<"U+5C", Head(str)>>
          ELSE <<Head(str)>>) \o escapeSpecial(Tail(str))

\* [\w-]: ASCII letters, digits, "_" and "-"
WordChars ==
    {Ascii[k] : k \in (17..26) \cup (34..59) \cup (66..91)} \cup {"_", "-"}

\* an item of the source of the regular expression: a character of the
\* source ("src"), the group of a dynamic segment ("param") or the group of
\* an optional static segment ("static"); marks counts the "?" that follow it
Src(c) == [kind |-> "src", c |-> c, optional |-> FALSE, seg |-> <<>>, marks |-> 0]
Param(optional) ==
    [kind |-> "param", c |-> "", optional |-> optional, seg |-> <<>>,
     marks |-> IF optional THEN 1 ELSE 0]
Static(seg) ==
    [kind |-> "static", c |-> "", optional |-> TRUE, seg |-> seg, marks |-> 1]

sourceItems(str) == [k \in 1..Len(str) |-> Src(str[k])]

isSrc(items, k, c) == k <= Len(items) /\ items[k].kind = "src" /\ items[k].c = c

RECURSIVE wordRun(_, _)
\* how many characters of [\w-] the source has from item k on
wordRun(items, k) ==
    IF k <= Len(items) /\ items[k].kind = "src" /\ items[k].c \in WordChars
    THEN 1 + wordRun(items, k + 1)
    ELSE 0

RECURSIVE dynamicSegments(_)
\* .replace(/\/:([\w-]+)(\?)?/g, ...): "/:name" becomes /([^\/]+) and
\* "/:name?" becomes /?([^\/]+)?
dynamicSegments(items) ==
    IF items = <<>> THEN <<>>
    ELSE LET n == IF isSrc(items, 1, "/") /\ isSrc(items, 2, ":")
                  THEN wordRun(items, 3) ELSE 0
             optional == isSrc(items, n + 3, "?")
             used == n + 2 + (IF optional THEN 1 ELSE 0)
         IN  IF n > 0
             THEN <<Param(optional)>>
                      \o dynamicSegments(SubSeq(items, used + 1, Len(items)))
             ELSE <<Head(items)>> \o dynamicSegments(Tail(items))

RECURSIVE staticSegments(_)
\* .replace(/\/([\w-]+)\?(\/|$)/g, "(/$1)?$2"), run over what the replace of
\* the dynamic segments returned: "/name?" before a slash or at the end
\* becomes (/name)?. The slash may be the one the group of a dynamic segment
\* begins with. The slash that follows is part of the match, so the segment
\* after it is not looked at again
staticSegments(items) ==
    IF items = <<>> THEN <<>>
    ELSE LET n == IF isSrc(items, 1, "/") THEN wordRun(items, 2) ELSE 0
             atEnd == n + 2 = Len(items)
             beforeParam == n + 3 <= Len(items) /\ items[n + 3].kind = "param"
             hit == /\ n > 0
                    /\ isSrc(items, n + 2, "?")
                    /\ (atEnd \/ isSrc(items, n + 3, "/") \/ beforeParam)
         IN  IF hit
             THEN <<Static([k \in 1..n |-> items[k + 1].c])>>
                      \o (IF atEnd THEN <<>>
                          ELSE <<items[n + 3]>>
                                   \o staticSegments(SubSeq(items, n + 4, Len(items))))
             ELSE <<Head(items)>> \o staticSegments(Tail(items))

RECURSIVE markRun(_, _)
\* how many "?" the source has from item k on
markRun(items, k) == IF isSrc(items, k, "?") THEN 1 + markRun(items, k + 1) ELSE 0

RECURSIVE regExpAtoms(_)
\* new RegExp(source, "i"), the part compiled from the pattern: a backslash
\* and the character after it are that character, a "?" makes what precedes
\* it optional, and a "?" after that makes it lazy
regExpAtoms(items) ==
    IF items = <<>> THEN <<>>
    ELSE LET escaped == isSrc(items, 1, "U+5C") /\ Len(items) >= 2
             body == IF escaped THEN 2 ELSE 1
             marks == markRun(items, body + 1)
             atom == IF escaped THEN items[2] ELSE items[1]
         IN  <<[atom EXCEPT !.optional = @ \/ marks > 0, !.marks = @ + marks]>>
                 \o regExpAtoms(SubSeq(items, body + marks + 1, Len(items)))

\* what compilePath appends for end: true. A path that ends with "*" gets
\* (.*)$ if it is "*" or "/*" and (?:\/(.+)|\/*)$ if not; any other path gets
\* \/*$
endingOf(pattern) ==
    IF pattern # <<>> /\ pattern[Len(pattern)] = "*"
    THEN (IF pattern \in {<<"*">>, <<"/", "*">>} THEN "rest" ELSE "splat")
    ELSE "slashes"

\* compilePath(path, false, true): the expression as its atoms and its ending.
\* The replaces, and the expression, which has no flag "u", work on UTF-16
\* code units
compilePath(pattern) ==
    [atoms |-> regExpAtoms(staticSegments(dynamicSegments(
                   sourceItems(escapeSpecial(normalizePattern(
                       toCodeUnits(pattern))))))),
     ending |-> endingOf(pattern)]

\* new RegExp throws SyntaxError (nothing to repeat) for a third "?" in a row
compileThrows(pattern) ==
    \E k \in 1..Len(compilePath(pattern).atoms) :
        compilePath(pattern).atoms[k].marks > 2

\* the simple upper-case mappings of the code units of the Basic Multilingual
\* Plane in Unicode 17.0, as <<first, last, step, difference>>: toUpperCase
\* gives one code unit, and not an ASCII one for a code unit outside ASCII
UpperCaseRuns ==
    <<<<97, 122, 1, 0 - 32>>, <<181, 181, 1, 743>>, <<224, 246, 1, 0 - 32>>,
      <<248, 254, 1, 0 - 32>>, <<255, 255, 1, 121>>, <<257, 303, 2, 0 - 1>>,
      <<307, 311, 2, 0 - 1>>, <<314, 328, 2, 0 - 1>>, <<331, 375, 2, 0 - 1>>,
      <<378, 382, 2, 0 - 1>>, <<384, 384, 1, 195>>, <<387, 389, 2, 0 - 1>>,
      <<392, 392, 1, 0 - 1>>, <<396, 396, 1, 0 - 1>>, <<402, 402, 1, 0 - 1>>,
      <<405, 405, 1, 97>>, <<409, 409, 1, 0 - 1>>, <<410, 410, 1, 163>>,
      <<411, 411, 1, 42561>>,
      <<414, 414, 1, 130>>, <<417, 421, 2, 0 - 1>>, <<424, 424, 1, 0 - 1>>,
      <<429, 429, 1, 0 - 1>>, <<432, 432, 1, 0 - 1>>, <<436, 438, 2, 0 - 1>>,
      <<441, 441, 1, 0 - 1>>, <<445, 445, 1, 0 - 1>>, <<447, 447, 1, 56>>,
      <<453, 453, 1, 0 - 1>>, <<454, 454, 1, 0 - 2>>, <<456, 456, 1, 0 - 1>>,
      <<457, 457, 1, 0 - 2>>, <<459, 459, 1, 0 - 1>>, <<460, 460, 1, 0 - 2>>,
      <<462, 476, 2, 0 - 1>>, <<477, 477, 1, 0 - 79>>,
      <<479, 495, 2, 0 - 1>>, <<498, 498, 1, 0 - 1>>, <<499, 499, 1, 0 - 2>>,
      <<501, 501, 1, 0 - 1>>, <<505, 543, 2, 0 - 1>>, <<547, 563, 2, 0 - 1>>,
      <<572, 572, 1, 0 - 1>>, <<575, 576, 1, 10815>>, <<578, 578, 1, 0 - 1>>,
      <<583, 591, 2, 0 - 1>>, <<592, 592, 1, 10783>>, <<593, 593, 1, 10780>>,
      <<594, 594, 1, 10782>>, <<595, 595, 1, 0 - 210>>,
      <<596, 596, 1, 0 - 206>>, <<598, 599, 1, 0 - 205>>,
      <<601, 601, 1, 0 - 202>>, <<603, 603, 1, 0 - 203>>,
      <<604, 604, 1, 42319>>, <<608, 608, 1, 0 - 205>>,
      <<609, 609, 1, 42315>>, <<611, 611, 1, 0 - 207>>,
      <<612, 612, 1, 42343>>,
      <<613, 613, 1, 42280>>, <<614, 614, 1, 42308>>,
      <<616, 616, 1, 0 - 209>>, <<617, 617, 1, 0 - 211>>,
      <<618, 618, 1, 42308>>, <<619, 619, 1, 10743>>, <<620, 620, 1, 42305>>,
      <<623, 623, 1, 0 - 211>>, <<625, 625, 1, 10749>>,
      <<626, 626, 1, 0 - 213>>, <<629, 629, 1, 0 - 214>>,
      <<637, 637, 1, 10727>>, <<640, 640, 1, 0 - 218>>,
      <<642, 642, 1, 42307>>, <<643, 643, 1, 0 - 218>>,
      <<647, 647, 1, 42282>>, <<648, 648, 1, 0 - 218>>,
      <<649, 649, 1, 0 - 69>>, <<650, 651, 1, 0 - 217>>,
      <<652, 652, 1, 0 - 71>>, <<658, 658, 1, 0 - 219>>,
      <<669, 669, 1, 42261>>, <<670, 670, 1, 42258>>, <<837, 837, 1, 84>>,
      <<881, 883, 2, 0 - 1>>, <<887, 887, 1, 0 - 1>>, <<891, 893, 1, 130>>,
      <<940, 940, 1, 0 - 38>>, <<941, 943, 1, 0 - 37>>,
      <<945, 961, 1, 0 - 32>>, <<962, 962, 1, 0 - 31>>,
      <<963, 971, 1, 0 - 32>>, <<972, 972, 1, 0 - 64>>,
      <<973, 974, 1, 0 - 63>>, <<976, 976, 1, 0 - 62>>,
      <<977, 977, 1, 0 - 57>>, <<981, 981, 1, 0 - 47>>,
      <<982, 982, 1, 0 - 54>>, <<983, 983, 1, 0 - 8>>,
      <<985, 1007, 2, 0 - 1>>, <<1008, 1008, 1, 0 - 86>>,
      <<1009, 1009, 1, 0 - 80>>, <<1010, 1010, 1, 7>>,
      <<1011, 1011, 1, 0 - 116>>, <<1013, 1013, 1, 0 - 96>>,
      <<1016, 1016, 1, 0 - 1>>, <<1019, 1019, 1, 0 - 1>>,
      <<1072, 1103, 1, 0 - 32>>, <<1104, 1119, 1, 0 - 80>>,
      <<1121, 1153, 2, 0 - 1>>, <<1163, 1215, 2, 0 - 1>>,
      <<1218, 1230, 2, 0 - 1>>, <<1231, 1231, 1, 0 - 15>>,
      <<1233, 1327, 2, 0 - 1>>, <<1377, 1414, 1, 0 - 48>>,
      <<4304, 4346, 1, 3008>>, <<4349, 4351, 1, 3008>>,
      <<5112, 5117, 1, 0 - 8>>, <<7296, 7296, 1, 0 - 6254>>,
      <<7297, 7297, 1, 0 - 6253>>, <<7298, 7298, 1, 0 - 6244>>,
      <<7299, 7300, 1, 0 - 6242>>, <<7301, 7301, 1, 0 - 6243>>,
      <<7302, 7302, 1, 0 - 6236>>, <<7303, 7303, 1, 0 - 6181>>,
      <<7304, 7304, 1, 35266>>, <<7306, 7306, 1, 0 - 1>>,
      <<7545, 7545, 1, 35332>>,
      <<7549, 7549, 1, 3814>>, <<7566, 7566, 1, 35384>>,
      <<7681, 7829, 2, 0 - 1>>, <<7835, 7835, 1, 0 - 59>>,
      <<7841, 7935, 2, 0 - 1>>, <<7936, 7943, 1, 8>>, <<7952, 7957, 1, 8>>,
      <<7968, 7975, 1, 8>>, <<7984, 7991, 1, 8>>, <<8000, 8005, 1, 8>>,
      <<8017, 8023, 2, 8>>, <<8032, 8039, 1, 8>>, <<8048, 8049, 1, 74>>,
      <<8050, 8053, 1, 86>>, <<8054, 8055, 1, 100>>, <<8056, 8057, 1, 128>>,
      <<8058, 8059, 1, 112>>, <<8060, 8061, 1, 126>>, <<8112, 8113, 1, 8>>,
      <<8126, 8126, 1, 0 - 7205>>, <<8144, 8145, 1, 8>>,
      <<8160, 8161, 1, 8>>, <<8165, 8165, 1, 7>>, <<8526, 8526, 1, 0 - 28>>,
      <<8560, 8575, 1, 0 - 16>>, <<8580, 8580, 1, 0 - 1>>,
      <<9424, 9449, 1, 0 - 26>>, <<11312, 11359, 1, 0 - 48>>,
      <<11361, 11361, 1, 0 - 1>>, <<11365, 11365, 1, 0 - 10795>>,
      <<11366, 11366, 1, 0 - 10792>>, <<11368, 11372, 2, 0 - 1>>,
      <<11379, 11379, 1, 0 - 1>>, <<11382, 11382, 1, 0 - 1>>,
      <<11393, 11491, 2, 0 - 1>>, <<11500, 11502, 2, 0 - 1>>,
      <<11507, 11507, 1, 0 - 1>>, <<11520, 11557, 1, 0 - 7264>>,
      <<11559, 11559, 1, 0 - 7264>>, <<11565, 11565, 1, 0 - 7264>>,
      <<42561, 42605, 2, 0 - 1>>, <<42625, 42651, 2, 0 - 1>>,
      <<42787, 42799, 2, 0 - 1>>, <<42803, 42863, 2, 0 - 1>>,
      <<42874, 42876, 2, 0 - 1>>, <<42879, 42887, 2, 0 - 1>>,
      <<42892, 42892, 1, 0 - 1>>, <<42897, 42899, 2, 0 - 1>>,
      <<42900, 42900, 1, 48>>, <<42903, 42921, 2, 0 - 1>>,
      <<42933, 42947, 2, 0 - 1>>, <<42952, 42954, 2, 0 - 1>>,
      <<42957, 42959, 2, 0 - 1>>,
      <<42961, 42965, 2, 0 - 1>>, <<42967, 42971, 2, 0 - 1>>,
      <<42998, 42998, 1, 0 - 1>>, <<43859, 43859, 1, 0 - 928>>,
      <<43888, 43967, 1, 0 - 38864>>, <<65345, 65370, 1, 0 - 32>>>>

\* Canonicalize(ch) of a regular expression with the flag "i" and without
\* the flag "u": the upper-case form of the character
canonicalize(c) ==
    IF c \in DOMAIN AsciiCodes
    THEN (IF AsciiCodes[c] \in 97..122 THEN charOf(AsciiCodes[c] - 32) ELSE c)
    ELSE LET cp == codeOf(c)
         IN  IF \E k \in 1..Len(UpperCaseRuns) :
                    /\ cp \in UpperCaseRuns[k][1]..UpperCaseRuns[k][2]
                    /\ (cp - UpperCaseRuns[k][1]) % UpperCaseRuns[k][3] = 0
             THEN LET found == UpperCaseRuns[
                                 CHOOSE k \in 1..Len(UpperCaseRuns) :
                                     /\ cp \in UpperCaseRuns[k][1]..UpperCaseRuns[k][2]
                                     /\ (cp - UpperCaseRuns[k][1]) % UpperCaseRuns[k][3] = 0]
                  IN  charOf(cp + found[4])
             ELSE c

\* two characters the regular expression, compiled with the flag "i" as
\* matchPath does when caseSensitive is not passed, takes for the same
sameIgnoringCase(a, b) == a = b \/ canonicalize(a) = canonicalize(b)

\* the characters "." does not match: LF, CR, U+2028 and U+2029
LineTerminators == {charOf(10), charOf(13), charOf(8232), charOf(8233)}

RECURSIVE segmentRun(_, _)
\* how many characters other than "/" str has from position k on
segmentRun(str, k) ==
    IF k <= Len(str) /\ str[k] # "/" THEN 1 + segmentRun(str, k + 1) ELSE 0

\* str begins with "/" and the characters of seg, letters in either case
startsWithSegment(str, seg) ==
    /\ Len(str) >= Len(seg) + 1
    /\ str[1] = "/"
    /\ \A k \in 1..Len(seg) : sameIgnoringCase(str[k + 1], seg[k])

\* the ending of the expression over what is left of the pathname; "boundary"
\* and "open" are the endings of end: false
matchEnding(ending, str) ==
    CASE ending = "slashes" -> stripTrailingSlashes(str) = <<>>
      [] ending = "rest" -> \A k \in 1..Len(str) : str[k] \notin LineTerminators
      [] ending = "splat" ->
             \/ /\ Len(str) >= 2
                /\ str[1] = "/"
                /\ \A k \in 2..Len(str) : str[k] \notin LineTerminators
             \/ stripTrailingSlashes(str) = <<>>
      [] ending = "boundary" -> str = <<>> \/ Head(str) = "/"
      [] ending = "open" -> TRUE

RECURSIVE matchAtoms(_, _, _)
\* the expression run over str from its start, with backtracking
matchAtoms(atoms, str, ending) ==
    IF atoms = <<>> THEN matchEnding(ending, str)
    ELSE LET atom == Head(atoms)
             rest == Tail(atoms)
         IN  CASE atom.kind = "src" ->
                      \/ /\ atom.optional
                         /\ matchAtoms(rest, str, ending)
                      \/ /\ str # <<>>
                         /\ sameIgnoringCase(Head(str), atom.c)
                         /\ matchAtoms(rest, Tail(str), ending)
               [] atom.kind = "param" /\ ~atom.optional ->
                      /\ str # <<>>
                      /\ Head(str) = "/"
                      /\ \E n \in 1..segmentRun(str, 2) :
                             matchAtoms(rest, SubSeq(str, n + 2, Len(str)), ending)
               [] atom.kind = "param" /\ atom.optional ->
                      \E slash \in IF str # <<>> /\ Head(str) = "/"
                                   THEN {0, 1} ELSE {0} :
                          \E n \in 0..segmentRun(str, slash + 1) :
                              matchAtoms(rest, SubSeq(str, slash + n + 1, Len(str)),
                                         ending)
               [] atom.kind = "static" ->
                      \/ matchAtoms(rest, str, ending)
                      \/ /\ startsWithSegment(str, atom.seg)
                         /\ matchAtoms(rest, SubSeq(str, Len(atom.seg) + 2, Len(str)),
                                       ending)

\* pathname.match(matcher) # null for the expression compilePath builds for
\* end: true: "/:name" is /([^\/]+), the end of the pattern is \/*$, letters
\* match in either case
matchFrom(pat, str) == matchAtoms(pat.atoms, toCodeUnits(str), pat.ending)

\* matchPath({ path: pattern, end: true }, pathname) # null. The expression
\* has no flag "u": it is compiled from, and run over, UTF-16 code units
matchPath(pattern, pn) ==
    ~compileThrows(pattern) /\ matchFrom(compilePath(pattern), pn)

NoMatch == [found |-> FALSE, at |-> 0, threw |-> FALSE]

RECURSIVE findFrom(_, _, _)
\* the loop of findRouteAndMatch over the pathname pn, from entry k of the
\* flattened routes
findFrom(pn, flat, k) ==
    IF k > Len(flat) THEN NoMatch
    ELSE IF flat[k].path = <<>> THEN findFrom(pn, flat, k + 1)
    ELSE IF compileThrows(flat[k].path)
         THEN [found |-> FALSE, at |-> k, threw |-> TRUE]
    ELSE IF matchPath(flat[k].path, pn)
         THEN [found |-> TRUE, at |-> k, threw |-> FALSE]
    ELSE findFrom(pn, flat, k + 1)

\* the entry of flat the function returns, as its position
findRouteAndMatch(path, flat) == findFrom(split(path, "?")[1], flat, 1)

\* const [, drawerSearch] = path.split("?")
drawerSearchOf(path) ==
    IF Len(split(path, "?")) >= 2 THEN split(path, "?")[2] ELSE <<>>

\* what DrawerContent returns for a path and a route tree
DrawerContentOutcome(path, tree) ==
    IF path = <<"/">>
    THEN [kind |-> "RootRejected", view |-> "null", search |-> <<>>]
    ELSE LET flatRoutes == flattenRoutes(tree, <<>>)
             result == findRouteAndMatch(path, flatRoutes)
         IN  IF result.threw
             THEN [kind |-> "Throws", view |-> "null", search |-> <<>>]
             ELSE IF ~result.found \/ flatRoutes[result.at].element = "null"
             THEN [kind |-> "NotFound", view |-> "null", search |-> <<>>]
             ELSE [kind |-> "View",
                   view |-> flatRoutes[result.at].element,
                   search |-> URLSearchParams(drawerSearchOf(path))]

\* route trees the host passes
Leaf(path, element) == [path |-> path, element |-> element, children |-> <<>>]
Node(path, element, children) ==
    [path |-> path, element |-> element, children |-> children]

\* a root layout with nested pages, one of them declared with a leading slash
TreeApp ==
    <<Node(<<"/">>, "Root",
           <<Node(<<"a">>, "A", <<Leaf(<<":", "i">>, "Item")>>),
             Leaf(<<"/", "b">>, "B")>>)>>
\* a parent without a view whose index child has the view
TreeIndex ==
    <<Node(<<"a">>, "null", <<Leaf(<<>>, "A"), Leaf(<<"b">>, "AB")>>)>>
\* siblings where a static and a dynamic pattern match the same path
TreeSiblings ==
    <<Leaf(<<"/", "a">>, "A"), Leaf(<<":", "i">>, "Item"), Leaf(<<"/", "a", "/">>, "A2")>>
\* a pathless layout around the pages
TreePathless ==
    <<Node(<<>>, "Layout", <<Leaf(<<"/">>, "Home"), Leaf(<<"b">>, "B")>>)>>
\* pages followed by a splat below one of them and a catch-all
TreeCatchAll ==
    <<Leaf(<<"/", "a">>, "A"), Leaf(<<"/", "a", "/", "*">>, "UnderA"),
      Leaf(<<"*">>, "CatchAll")>>
\* a page with an optional parameter before one with an optional static
\* segment
TreeOptional ==
    <<Leaf(<<"/", "a", "/", ":", "i", "?">>, "Item"),
      Leaf(<<"/", "b", "?", "/", ":", "i">>, "Other")>>
RouteTrees ==
    {TreeApp, TreeIndex, TreeSiblings, TreePathless, TreeCatchAll, TreeOptional}

\* drawer paths: a pathname, alone or followed by a query
Pathnames ==
    {<<>>, <<"/">>, <<"/", "/">>, <<"/", "a">>, <<"/", "a", "/">>,
     <<"/", "a", "/", "b">>, <<"/", "a", "/", "x">>, <<"/", "b">>,
     <<"/", "x">>, <<"a">>, <<"/", "B">>, <<"/", "a", "b">>}
Queries == {<<"?">>, <<"?", "x", "=", "a">>, <<"?", "x", "=", "a", "&", "b">>}
DrawerPaths == Pathnames \cup {pn \o q : pn \in Pathnames, q \in Queries}

\* DrawerContent renders, first or again, with the path of its drawer
DrawerContentRender(path) ==
    /\ drawerPath' = path
    /\ rendered' = DrawerContentOutcome(path, routes)
    /\ lastOp' = [op |-> "DrawerContent", arg |-> path]
    /\ UNCHANGED <<hostVars, hookVars, openDrawers, closingDrawers,
                   draggingDrawers, openTimers, closeTimers, cleanupTimers,
                   bodyOverflow, listenersAttached, unrendered, gestureVars,
                   routes, run>>

InitResolver ==
    /\ \E stack \in {<<>>} : InitHook(stack)
    /\ bodyOverflow = ""
    /\ listenersAttached = {}
    /\ openDrawers = <<>>
    /\ closingDrawers = {}
    /\ draggingDrawers = {}
    /\ openTimers = <<>>
    /\ closeTimers = <<>>
    /\ cleanupTimers = <<>>
    /\ InitPanelsIdle
    /\ routes \in RouteTrees
    /\ drawerPath \in DrawerPaths
    /\ rendered = DrawerContentOutcome(drawerPath, routes)

NextResolver == \E path \in DrawerPaths : DrawerContentRender(path)

SpecResolver == InitResolver /\ [][NextResolver]_vars

----------------------------------------------------------------------------
(* Properties of the stack store *)

\* the drawer list of the URL after the step
liveListAfter == drawerParamsOf(entries'[index'])

\* C1: whenever the hook has rendered, the derived stack has one entry per
\* element of the persisted `drawer` list, with the same paths in the same
\* order; once the host state has propagated that list is the one in the URL.
StackMatchesPersisted ==
    LET persisted == getAll(searchParams, DRAWER)
    IN  /\ Len(drawerStack) = Len(persisted)
        /\ \A i \in 1..Len(persisted) : drawerStack[i].path = persisted[i]
        /\ unrendered = 0 =>
              /\ Len(drawerStack) = Len(liveList)
              /\ \A i \in 1..Len(liveList) : drawerStack[i].path = liveList[i]

\* a propagated render of a three-level stack whose levels differ
StackMatchesPersistedWitness ==
    /\ lastOp.op = "render"
    /\ unrendered = 0
    /\ Len(drawerStack) = 3
    /\ drawerStack[2].path # drawerStack[3].path

\* the paths as the URL holds them: scalar-value strings
persistedForm(paths) == [k \in 1..Len(paths) |-> toUSVString(paths[k])]

\* C2 as stated: pushDrawer(p) sets the persisted list to the live list
\* followed by p, for any path p, whether or not p is already in it.
PushAppends ==
    [][lastOp'.op = "pushDrawer" => liveListAfter = Append(liveList, lastOp'.arg)]_vars

\* C2 amended: pushDrawer(p) sets the persisted list to the live list followed
\* by p as a scalar-value string, which is p itself unless p holds a lone
\* surrogate, whether or not that string is already in the list.
PushAppendsScalarValue ==
    [][lastOp'.op = "pushDrawer" =>
          liveListAfter = Append(liveList, toUSVString(lastOp'.arg))]_vars

\* a push of a path that was already open left it open twice, above and below
\* a path that was pushed with a lone surrogate
PushAppendsWitness ==
    /\ lastOp = [op |-> "pushDrawer", arg |-> PathA]
    /\ liveList = <<PathA, toUSVString(PathS), PathA>>
    /\ toUSVString(PathS) # PathS

\* C3 as stated: the paths of pushes made one after another, none of them
\* seen by the hook yet, all land on the list that preceded them, in call
\* order.
RapidPushesStack ==
    (run.backs = 0 /\ Len(run.args) > 0) =>
        /\ index > Len(run.args)
        /\ liveList = drawerParamsOf(entries[index - Len(run.args)]) \o run.args

\* C3 amended: the paths of pushes made one after another, none of them seen
\* by the hook yet, all land on the list that preceded them, in call order
\* and as scalar-value strings; no push overwrites or drops an earlier one.
RapidPushesStackScalarValue ==
    (run.backs = 0 /\ Len(run.args) > 0) =>
        /\ index > Len(run.args)
        /\ liveList = drawerParamsOf(entries[index - Len(run.args)])
                          \o persistedForm(run.args)

\* two pushes of different paths, with the hook still on the list before both
RapidPushesStackWitness ==
    /\ lastOp.op = "pushDrawer"
    /\ unrendered = 2
    /\ Len(run.args) = 2
    /\ run.args[1] # run.args[2]
    /\ getAll(searchParams, DRAWER) = drawerParamsOf(entries[index - 2])

\* C4: every mutator computes the list it writes from the live list (the
\* paths it is given taken as the URL holds them).
MutatorsUseLiveList ==
    [][/\ lastOp'.op = "pushDrawer" =>
              liveListAfter = Append(liveList, toUSVString(lastOp'.arg))
       /\ lastOp'.op = "popDrawer" => liveListAfter = sliceButLast(liveList)
       /\ lastOp'.op = "closeAllDrawers" => liveListAfter = <<>>
       /\ lastOp'.op = "replaceDrawer" =>
              liveListAfter = Append(sliceButLast(liveList), toUSVString(lastOp'.arg))
       /\ lastOp'.op = "replaceDrawerStack" =>
              liveListAfter = persistedForm(lastOp'.arg)]_vars

\* C5: popDrawer removes exactly the last element of a non-empty persisted
\* list, and changes nothing when the list is empty.
PopRemovesLast ==
    [][lastOp'.op = "popDrawer" =>
          IF liveList = <<>>
          THEN UNCHANGED hostVars
          ELSE /\ liveListAfter = sliceButLast(liveList)
               /\ index' = index + 1]_vars

\* C6: closeAllDrawers empties the persisted list, and on an empty list it
\* leaves the location and the browsing history as they were.
CloseAllIsNoOpWhenEmpty ==
    [][lastOp'.op = "closeAllDrawers" =>
          /\ liveListAfter = <<>>
          /\ liveList = <<>> => UNCHANGED hostVars]_vars

\* C7: replaceDrawer(p) replaces the last element of a non-empty persisted
\* list by p and turns an empty list into [p] (p taken as the URL holds it).
ReplaceTop ==
    [][lastOp'.op = "replaceDrawer" =>
          liveListAfter = IF liveList = <<>>
                          THEN <<toUSVString(lastOp'.arg)>>
                          ELSE Append(sliceButLast(liveList),
                                      toUSVString(lastOp'.arg))]_vars

\* C8: each push of a run added one history entry on top of the one before
\* it, so the entries of the run hold the list before the run grown by one
\* level each, and every back navigation steps down exactly one level.
PushesAreHistoryEntries ==
    LET k == Len(run.args)
        first == index + run.backs - k
    IN  k > 0 =>
           /\ first >= 1
           /\ first + k <= Len(entries)
           /\ \A m \in 0..k :
                 drawerParamsOf(entries[first + m])
                    = drawerParamsOf(entries[first])
                         \o persistedForm(SubSeq(run.args, 1, m))
           /\ liveList = drawerParamsOf(entries[first])
                            \o persistedForm(SubSeq(run.args, 1, k - run.backs))

\* two pushes on a one-level stack, then two back navigations
PushesAreHistoryEntriesWitness ==
    /\ lastOp.op = "goBack"
    /\ Len(run.args) = 2
    /\ run.backs = 2
    /\ liveList = <<PathA>>

\* C18: the derived stack of n entries has levels 0, 1, ..., n-1 in order,
\* entry i is named "drawer-" followed by i, and no two entries share a name.
LevelsAreContiguous ==
    /\ \A i \in 1..Len(drawerStack) :
           /\ drawerStack[i].level = i - 1
           /\ drawerStack[i].id = <<"drawer-", i - 1>>
    /\ \A i, j \in 1..Len(drawerStack) :
           i # j => drawerStack[i].id # drawerStack[j].id

\* the hook has rendered after a back navigation to a stack that holds the
\* same path at two levels
LevelsAreContiguousWitness ==
    /\ lastOp.op = "render"
    /\ unrendered = 0
    /\ index < Len(entries)
    /\ Len(drawerStack) = 2
    /\ drawerStack[1].path = drawerStack[2].path

----------------------------------------------------------------------------
(* Properties of the close sequence *)

\* the step is the close timer of a request made on the URL it now finds
undisturbedCloseOf(level, len) ==
    /\ lastOp'.op = "closeTimer"
    /\ lastOp'.arg.level = level
    /\ lastOp'.arg.len = len
    /\ lastOp'.arg.sameUrl

\* C9: closing position k below the top of an n-level stack leaves exactly
\* the first k elements of the persisted list.
MidStackCloseKeepsLower ==
    [][\A len \in 1..MaxStack : \A level \in 0..(len - 2) :
          undisturbedCloseOf(level, len) =>
              liveListAfter = SubSeq(liveList, 1, level)]_vars

\* C10: closing the top position of an n-level stack issues exactly one pop:
\* one new history entry whose list is the first n-1 elements, in order.
TopCloseIsOnePop ==
    [][\A len \in 1..MaxStack :
          undisturbedCloseOf(len - 1, len) =>
              /\ Len(liveList) = len
              /\ liveListAfter = SubSeq(liveList, 1, len - 1)
              /\ index' = index + 1
              /\ Len(entries') = index'
              /\ SubSeq(entries', 1, index) = SubSeq(entries, 1, index)]_vars

----------------------------------------------------------------------------
(* Properties of the render of the stack *)

\* the step is a close request for position level of a stack of len drawers
\* none of which was closing
closeRequestOf(level, len) ==
    /\ lastOp'.op = "handleDrawerClose"
    /\ lastOp'.arg = level
    /\ Len(drawerStack) = len
    /\ closingDrawers = {}

\* C11 as stated: when the middle level of a three-level stack enters
\* Closing, the depth from the top of the top level decreases by one.
TopStepsDownOnMidClose ==
    [][closeRequestOf(1, 3) => depthFromTop(2)' = depthFromTop(2) - 1]_vars

\* C11 amended: when a level of a stack enters Closing, in that same step and
\* with the persisted list as long as before, the depth of every level below
\* it decreases by one and the depth of every level above it stays as it was;
\* so on a middle close of three levels the bottom level goes from 2 to 1 and
\* the top level stays at 0.
LowerLevelsStepUpOnClose ==
    [][\A len \in 1..MaxStack : \A level \in 0..(len - 1) :
          closeRequestOf(level, len) =>
              /\ level \in closingDrawers'
              /\ Len(liveListAfter) = Len(liveList)
              /\ Len(drawerStack') = len
              /\ \A j \in 0..(level - 1) : depthFromTop(j)' = depthFromTop(j) - 1
              /\ \A j \in (level + 1)..(len - 1) :
                     depthFromTop(j)' = depthFromTop(j)]_vars

\* the middle level of a three-level stack has just entered Closing: the
\* bottom level is at depth 1, the top level at depth 0, the list still has
\* three elements
LowerLevelsStepUpOnCloseWitness ==
    /\ lastOp = [op |-> "handleDrawerClose", arg |-> 1]
    /\ closingDrawers = {1}
    /\ Len(drawerStack) = 3
    /\ Len(liveList) = 3
    /\ depthFromTop(0) = 1
    /\ depthFromTop(2) = 0

----------------------------------------------------------------------------
(* Properties of the drag gesture *)

\* the close timers the step added are for exactly the positions of levels
closeRequestedFor(i) ==
    \E k \in (Len(closeTimers) + 1)..Len(closeTimers') : closeTimers'[k].level = i

\* C12: a drag released with its clamped delta at exactly 30% of the extent
\* recorded at drag start commits: the panel enters its close sequence.
DragAtThresholdCommits ==
    [][lastOp'.op = "release" =>
          \A i \in Dragging :
              (/\ recordedExtent(panels[i]) > 0
               /\ 10 * panels[i].dragOffset = 3 * recordedExtent(panels[i]))
              => /\ i \in closingDrawers'
                 /\ closeRequestedFor(i)]_vars

\* C13: a drag released with its clamped delta strictly below 30% of the
\* extent recorded at drag start cancels: no close sequence starts for the
\* panel, its open flag is as before, and it is rendered without drag offset.
DragBelowThresholdCancels ==
    [][lastOp'.op = "release" =>
          \A i \in Dragging :
              (/\ recordedExtent(panels[i]) > 0
               /\ 10 * panels[i].dragOffset < 3 * recordedExtent(panels[i]))
              => /\ ~closeRequestedFor(i)
                 /\ (i \in closingDrawers') = (i \in closingDrawers)
                 /\ isOpen(i)' = isOpen(i)
                 /\ visualOffset(panels'[i]) = 0]_vars

----------------------------------------------------------------------------
(* Properties of route resolution *)

\* the pathname of the drawer path: what precedes its first "?"
pathnameOf(path) == split(path, "?")[1]

\* the segments of a pathname or of a normalised pattern, trailing slashes
\* aside
segmentsOf(str) ==
    IF stripTrailingSlashes(str) = <<>> THEN <<>>
    ELSE split(Tail(stripTrailingSlashes(str)), "/")

\* two characters that are the same, or the two cases of one of the letters
\* A to Z
sameLetter(a, b) ==
    a = b \/ \E k \in 34..59 : {a, b} = {Ascii[k], Ascii[k + 32]}

\* two segments that differ at most in the case of their letters
sameSegment(a, b) ==
    /\ Len(a) = Len(b)
    /\ \A k \in 1..Len(a) : sameLetter(a[k], b[k])

\* a segment of a pattern that may be absent: "name?" or ":name?"
optionalSegment(p) == Len(p) >= 2 /\ p[Len(p)] = "?"

\* a segment of a pattern against a segment of a pathname: ":name" against
\* any non-empty segment and any other segment against itself, letters in
\* either case
segmentMatches(p, seg) ==
    LET name == IF optionalSegment(p) THEN SubSeq(p, 1, Len(p) - 1) ELSE p
    IN  IF name # <<>> /\ Head(name) = ":" THEN seg # <<>>
        ELSE sameSegment(name, seg)

RECURSIVE segmentsMatch(_, _, _)
\* the segments ps of a pattern against the segments ss of a pathname, one
\* for one, an optional segment present or absent; with splat, what is left
\* of the pathname after the pattern is the rest a final "*" stands for
segmentsMatch(ps, ss, splat) ==
    IF ps = <<>> THEN splat \/ ss = <<>>
    ELSE \/ /\ optionalSegment(Head(ps))
            /\ segmentsMatch(Tail(ps), ss, splat)
         \/ /\ ss # <<>>
            /\ segmentMatches(Head(ps), Head(ss))
            /\ segmentsMatch(Tail(ps), Tail(ss), splat)

\* the pattern matches the whole pathname, segment by segment, trailing
\* slashes aside; a final "*" segment stands for the rest of the pathname,
\* whatever it is
entireMatch(pattern, pn) ==
    LET ps == segmentsOf(<<"/">> \o stripLeadingSlashes(pattern))
        splat == ps # <<>> /\ ps[Len(ps)] = <<"*">>
        fixed == IF splat THEN SubSeq(ps, 1, Len(ps) - 1) ELSE ps
    IN  /\ pn # <<>>
        /\ Head(pn) = "/"
        /\ segmentsMatch(fixed, segmentsOf(pn), splat)

\* the flattened entries with a pattern that matches the whole pathname
matchingEntries(path, flat) ==
    {k \in 1..Len(flat) :
        flat[k].path # <<>> /\ entireMatch(flat[k].path, pathnameOf(path))}

\* C14: a drawer whose path is "/" or the empty path renders the root
\* placeholder, whatever the route tree holds.
RootPathRejected ==
    drawerPath \in {<<"/">>, <<>>} => rendered.kind = "RootRejected"

\* C15: a drawer path with a query suffix renders what the path without the
\* suffix renders: the same view, the not-found placeholder or the root
\* placeholder.
QueryNeverChangesOutcome ==
    LET base == DrawerContentOutcome(pathnameOf(drawerPath), routes)
    IN  drawerPath # pathnameOf(drawerPath) =>
           /\ rendered.kind = base.kind
           /\ rendered.view = base.view

\* C16: findRouteAndMatch returns the first entry, in flatten order, whose
\* pattern matches the whole query-stripped path, and nothing when there is
\* none; an entry whose pattern covers only a prefix of the path is not
\* returned.
FirstEntireMatch ==
    LET flat == flattenRoutes(routes, <<>>)
        result == findRouteAndMatch(drawerPath, flat)
        matching == matchingEntries(drawerPath, flat)
    IN  IF matching = {} THEN ~result.found
        ELSE /\ result.found
             /\ result.at \in matching
             /\ \A k \in matching : result.at <= k

\* C17: when some node with a view matches the whole path of a drawer other
\* than "/", the drawer renders the view of such a node.
ViewNodeIsRendered ==
    LET flat == flattenRoutes(routes, <<>>)
        withView == {k \in matchingEntries(drawerPath, flat) :
                        flat[k].element # "null"}
    IN  (drawerPath # <<"/">> /\ withView # {}) =>
           /\ rendered.kind = "View"
           /\ \E k \in withView : rendered.view = flat[k].element

----------------------------------------------------------------------------
(* Properties of the order of the close sequence *)

\* C19: from the close request until the mutation is issued the position is
\* in closingDrawers, and the closing mark is cleared only by the timer that
\* the mutation step sets.
MarkCoversCloseSequence ==
    \A k \in 1..Len(closeTimers) : closeTimers[k].level \in closingDrawers

\* the close request was made on the URL and the render that are current
sequenceUndisturbed(timer) ==
    /\ sameUrl(timer)
    /\ timer.searchParams = searchParams
    /\ unrendered = 0

\* C20: a position that has received a close request, and whose entry is
\* still in the stack, does not get its open flag back.
NoRevivalWhileClosing ==
    \A k \in 1..Len(closeTimers) :
        sequenceUndisturbed(closeTimers[k]) => ~isOpen(closeTimers[k].level)

\* the flag openDrawers holds for a position, undefined past its end
flagAt(arr, i) == IF i + 1 <= Len(arr) THEN arr[i + 1] ELSE "undefined"

PressWhileDraggingIgnored ==
    [][\A i \in Positions :
          (/\ lastOp'.op = "press"
           /\ lastOp'.arg.level = i
           /\ panels[i].isDragging)
          => /\ panels'[i].dragStartY = panels[i].dragStartY
             /\ panels'[i].handleStartY = panels[i].handleStartY
             /\ recordedExtent(panels'[i]) = recordedExtent(panels[i])
             /\ panels'[i].dragOffset = panels[i].dragOffset]_vars

\* C23: a release delivers onRelease once to each panel it ends the gesture
\* of, and leaves that panel idle and out of the dragging set
ReleaseDeliveredOnce ==
    [][lastOp'.op = "release" /\ Dragging # {}
       => \A r \in lastOp'.arg :
             /\ r.released = 1
             /\ ~panels'[r.level].isDragging
             /\ r.level \notin draggingDrawers']_vars

\* the start coordinate the move handler of the panel's drag surface reads
startOf(p) == IF handleOnly THEN p.handleStartY ELSE p.dragStartY

\* C24: no step leaves a panel with a negative drag offset, a fraction
\* reported to the drag listener (offset over recorded extent) is never
\* negative, and a move above the start coordinate sets the offset to 0
DragOffsetNeverNegative ==
    [][/\ \A i \in Positions :
             /\ panels'[i].dragOffset >= 0
             /\ reportsDrag(panels'[i]) =>
                    /\ recordedExtent(panels'[i]) > 0
                    /\ panels'[i].dragOffset * recordedExtent(panels'[i]) >= 0
       /\ lastOp'.op = "move" =>
             \A i \in Dragging :
                 (startOf(panels[i]) # <<>> /\ lastOp'.arg <= startOf(panels[i])[1])
                 => panels'[i].dragOffset = 0]_vars

\* a gesture that started at 2 has been moved up to 0
DragOffsetNeverNegativeWitness ==
    /\ lastOp.op = "move"
    /\ lastOp.arg = 0
    /\ \E i \in Dragging :
           /\ startOf(panels[i]) = <<2>>
           /\ panels[i].dragOffset = 0

\* C25: a pointer-down outside every drawer starts at most one close
\* sequence, that of the top position of the stack, and leaves the open flag
\* and the closing mark of every position below the top as they are
OutsideClosesOnlyTop ==
    [][lastOp'.op = "pointerDownOutside"
       => LET top == Len(drawerStack) - 1
          IN  /\ (closingDrawers' \ closingDrawers) \subseteq {top}
              /\ Len(closeTimers') <= Len(closeTimers) + 1
              /\ \A k \in (Len(closeTimers) + 1)..Len(closeTimers') :
                     closeTimers'[k].level = top
              /\ \A i \in 0..(top - 1) :
                     /\ isOpen(i)' = isOpen(i)
                     /\ (i \in closingDrawers') = (i \in closingDrawers)]_vars

\* C26: a pointer-down inside the toast container starts no close sequence:
\* it sets no timer, marks nothing closing, changes no open flag and leaves
\* the history as it is
ToastPointerDownClosesNothing ==
    [][(lastOp'.op = "pointerDownOutside" /\ lastOp'.arg.target = "toast")
       => UNCHANGED <<closeTimers, cleanupTimers, closingDrawers, openDrawers,
                      hostVars>>]_vars

\* a pointer-down in the toast container has reached the attached listeners
\* of three open drawers, and none of them called handleDrawerClose
ToastPointerDownClosesNothingWitness ==
    /\ lastOp.op = "pointerDownOutside"
    /\ lastOp.arg.target = "toast"
    /\ lastOp.arg.calls = <<>>
    /\ listenersAttached = {0, 1, 2}
    /\ Len(drawerStack) = 3
    /\ \A i \in 0..2 : isOpen(i)
    /\ closingDrawers = {}
    /\ closeTimers = <<>>

\* C27: a move or a release belongs to the gesture of one panel, so while two
\* panels are dragging each such event leaves at least one of them dragging
\* with the offset it had
GesturesAreIndependent ==
    [][(lastOp'.op \in {"move", "release"} /\ Cardinality(Dragging) >= 2)
       => \E i \in Dragging :
             /\ panels'[i].isDragging
             /\ panels'[i].dragOffset = panels[i].dragOffset]_vars

\* the panels above position i that are not closing
nonClosingAbove(i) ==
    Cardinality({j \in (i + 1)..(Len(drawerStack) - 1) : j \notin closingDrawers})

\* C28: a panel that is open, not closing and not dragged has as depth the
\* number of panels above it that are not closing, and rests translated up by
\* STACK_GAP times that depth and scaled by 1 - STACK_SQUEEZE times that depth
RestingTransformByDepth ==
    \A i \in 0..(Len(drawerStack) - 1) :
        (isOpen(i) /\ i \notin closingDrawers /\ i \notin draggingDrawers)
        => /\ depthFromTop(i) = nonClosingAbove(i)
           /\ transform(i) = [kind |-> "stacked",
                              y |-> 0 - STACK_GAP * nonClosingAbove(i),
                              scale |-> 100 - STACK_SQUEEZE * nonClosingAbove(i)]

\* the middle of three drawers is closing: the bottom one rests at depth 1
RestingTransformByDepthWitness ==
    /\ Len(drawerStack) = 3
    /\ closingDrawers = {1}
    /\ isOpen(0) /\ isOpen(2)
    /\ transform(0) = [kind |-> "stacked", y |-> 0 - 40, scale |-> 96]
    /\ transform(2) = [kind |-> "stacked", y |-> 0, scale |-> 100]

\* C29: the open flags have one entry per position of the stack, and the
\* closing set and the dragging set hold positions of the stack only
TransientStateFitsStack ==
    /\ Len(openDrawers) = Len(drawerStack)
    /\ closingDrawers \subseteq 0..(Len(drawerStack) - 1)
    /\ draggingDrawers \subseteq 0..(Len(drawerStack) - 1)

\* C30: the render in which the stack grows shows every position it grew by
\* with its open flag not true and with an open-flag timer pending that will
\* set it
AppendedEntryOpensAfterTick ==
    [][(lastOp'.op = "render" /\ Len(drawerStack') > Len(drawerStack))
       => \A i \in Len(drawerStack)..(Len(drawerStack') - 1) :
             /\ ~isOpen(i)'
             /\ \E k \in 1..Len(openTimers') :
                    openTimers'[k].from <= i /\ i < openTimers'[k].to]_vars

\* C31: a position of the stack that is in the closing set holds an entry
\* whose close sequence is under way: its close timer is pending, or the
\* mutation of that timer has not been rendered yet
ClosingMarksCurrentEntry ==
    \A i \in closingDrawers :
        i < Len(drawerStack)
        => \/ \E k \in 1..Len(closeTimers) : closeTimers[k].level = i
           \/ /\ unrendered > 0
              /\ \E k \in 1..Len(cleanupTimers) : cleanupTimers[k].level = i

\* C32: a panel of the stack that is open and in the dragging set has no
\* transition, keeps the translate and the scale of its depth and is moved
\* down by the drag offset of its gesture
DraggedPanelKeepsRestingTransform ==
    \A i \in draggingDrawers :
        (i < Len(drawerStack) /\ isOpen(i) /\ i \notin closingDrawers)
        => /\ transition(i) = "none"
           /\ transform(i).y = 0 - STACK_GAP * depthFromTop(i)
           /\ transform(i).scale = 100 - STACK_SQUEEZE * depthFromTop(i)
           /\ visualOffset(panels[i]) = panels[i].dragOffset

\* C33: the panel of a position lies one layer above its own backdrop, both
\* values grow with the position, and the backdrop and the panel of a later
\* position lie strictly above the panel of every earlier one
LaterPanelsLayerAbove ==
    \A i, j \in 0..(Len(drawerStack) - 1) :
        /\ contentZIndex(i) = overlayZIndex(i) + 1
        /\ i < j => /\ overlayZIndex(i) < overlayZIndex(j)
                    /\ contentZIndex(i) < contentZIndex(j)
                    /\ overlayZIndex(j) > contentZIndex(i)
                    /\ contentZIndex(j) > contentZIndex(i)

RECURSIVE countNodes(_)
\* the nodes of a list of route trees
countNodes(rs) ==
    IF rs = <<>> THEN 0
    ELSE 1 + countNodes(Head(rs).children) + countNodes(Tail(rs))

\* two '/' in a row somewhere in the string
hasDoubleSlash(str) ==
    \E k \in 1..(Len(str) - 1) : str[k] = "/" /\ str[k + 1] = "/"

\* C34: flattenRoutes gives one entry per node of the tree, and no full path
\* of its output holds two separators in a row
FlattenCollapsesSeparators ==
    LET flat == flattenRoutes(routes, <<>>)
    IN  /\ Len(flat) = countNodes(routes)
        /\ \A k \in 1..Len(flat) : ~hasDoubleSlash(flat[k].path)

\* the close timer at the head is that of a top close whose entry another
\* sequence has already removed from the live URL
secondOfRace ==
    /\ closeTimers # <<>>
    /\ LET timer == Head(closeTimers)
           requested == getAll(timer.searchParams, DRAWER)
       IN  /\ timer.level = timer.len - 1
           /\ Len(requested) = timer.len
           /\ liveList = sliceButLast(requested)

\* C35: when the timer of a second close request for the same top panel
\* fires after the first has removed the entry, the list stays the requested
\* list without its last element; and once no close or cleanup timer is
\* pending the closing set is empty
RacingTopClosesRemoveOne ==
    [][/\ (lastOp'.op = "closeTimer" /\ secondOfRace)
          => liveListAfter =
                 sliceButLast(getAll(Head(closeTimers).searchParams, DRAWER))
       /\ (closeTimers' = <<>> /\ cleanupTimers' = <<>>) => closingDrawers' = {}]_vars

\* the query parameters of a location other than the drawer list
otherParams(loc) == delete(URLSearchParams(loc.search), DRAWER)

\* the mutators of the hook
Mutators ==
    {"pushDrawer", "popDrawer", "replaceDrawer", "replaceDrawerStack",
     "closeAllDrawers"}

\* C36: a mutator leaves the pathname and every query parameter other than
\* the drawer list as they are in the live location it is called on
MutatorsKeepOtherParams ==
    [][lastOp'.op \in Mutators
       => /\ entries'[index'].pathname = windowLocation.pathname
          /\ otherParams(entries'[index']) = otherParams(windowLocation)]_vars

\* C37: popDrawer and closeAllDrawers on a live list that is not empty,
\* replaceDrawer and replaceDrawerStack each add one history entry on top of
\* the current one and keep the history up to it, so that one back returns
\* to the location the call was made on
MutatorsAddOneEntry ==
    [][(\/ lastOp'.op \in {"popDrawer", "closeAllDrawers"} /\ liveList # <<>>
        \/ lastOp'.op \in {"replaceDrawer", "replaceDrawerStack"})
       => /\ index' = index + 1
          /\ Len(entries') = index'
          /\ SubSeq(entries', 1, index) = SubSeq(entries, 1, index)]_vars

\* C38: the page is scroll-locked exactly while a mounted panel has its open
\* flag true: body overflow is "hidden" if a panel is open, and not if none is
BodyScrollLockedWhileOpen ==
    (\E i \in 0..(Len(drawerStack) - 1) : isOpen(i)) <=> bodyOverflow = "hidden"

====
